---------------------------- MODULE Spec2Model ----------------------------
(***************************************************************************)
(* State-machine model of the Telegram video bot (src/main.py): the user   *)
(* store, the video catalog, the bookmark store, the vote store and the    *)
(* settings store, and the handlers that read and write them; and of the   *)
(* bookmark handlers of src/start.py, which keep a list in the user        *)
(* document.                                                               *)
(*                                                                         *)
(* Every storage call of the handlers is a synchronous pymongo call, and   *)
(* run() builds the Application without concurrent updates, so one update  *)
(* is handled to its end before the next one is taken up.  An action below *)
(* is therefore a whole handler; what the transport and the stores do with *)
(* a call is an input of the action.  SpecRace, at the end, takes the      *)
(* handlers storage call by storage call instead, as several workers on    *)
(* one database interleave them.                                           *)
(***************************************************************************)
EXTENDS Integers, Sequences, FiniteSets, TLC

VARIABLES
    users,        \* db.users: a set of documents
    videos,       \* db.videos: the catalog, documents in insertion order
    bookmarks,    \* db.bookmarks: documents in insertion order
    video_likes,  \* db.video_likes: a set of vote documents
    now,          \* the wall clock, datetime.now()
    last,         \* the update handled last and what its handler answered
    run,          \* observer: "next" presses in a row since a video was shown
    bot_settings, \* db.bot_settings: a set of documents
    shelf,        \* the "bookmarks" field of the documents in db.users (src/start.py)
    inflight,     \* the requests handled storage call by storage call: see SpecRace
    toggled,      \* observer: the writes of /toggleforward so far, and how many
                  \* of them followed a read that raised
    shown,        \* observer: the video last sent with its buttons to each user
                  \* it follows
    auto_delete_enabled,  \* AUTO_DELETE_VIDEOS of the environment
    chat,         \* the video messages sent while auto_delete_enabled, each with
                  \* its deletion task: pending or not, and the attempts made
    broadcast     \* the /broadcast being handled: its list of users, its place
                  \* in the list and its counters

vars == <<users, videos, bookmarks, video_likes, now, last, run, bot_settings, shelf,
          inflight, toggled, shown, auto_delete_enabled, chat, broadcast>>

-----------------------------------------------------------------------------
(* Bounds of the model *)

MaxVideos == 3      \* catalog size of the browsing specification
MaxWatched == 3     \* cap of the watched_videos counter
MaxTime == 3        \* clock ticks
MaxDays == 2        \* largest day count of a premium grant
CapCatalog == 6     \* catalog size of the bookmark-cap scenario
PairCatalog == 2    \* catalog size of the two-user scenarios
MaxLikes == 29      \* like rows of the percentage specification
MaxDislikes == 21   \* dislike rows of the percentage specification
MaxIndex == 4       \* largest stored index of the stored-state specification
MaxToggles == 3     \* writes of /toggleforward
MaxRequests == 3    \* requests in flight at once
MaxRecorded == 1    \* votes and bookmarks stored while the shown video is followed
MaxMessages == 2    \* video messages sent while auto_delete_enabled
MaxAudience == 3    \* users who have sent /start
auto_delete_minutes == 1   \* AUTO_DELETE_MINUTES, in steps of the clock

(* Program constants *)

BookmarkLimit == 5
DefaultPercentage == 77
MinFileIdLen == 20
SampleSize == 100
NumCategories == 4
ShelfLimit == 5
MantissaBits == 53
LimbBits == 16

\* Python's None, for premium_expires; a datetime t is <<t>>
None == <<>>

Min(S) == CHOOSE x \in S : \A y \in S : x <= y

-----------------------------------------------------------------------------
(* Python float arithmetic (IEEE 754 binary64, round to nearest even), as    *)
(* used by get_video_like_percentage: int((total_likes / total_votes) * 100) *)
(* A float is [m |-> mantissa bits, most significant first, e |-> exponent   *)
(* of the last bit]; zero has the empty mantissa.                            *)

RECURSIVE LeadPos(_, _)
\* position (1, 2, ...) of the first 1 bit of the binary fraction r / t, 0 < r < t
LeadPos(r, t) == IF 2 * r >= t THEN 1 ELSE 1 + LeadPos(2 * r, t)

Pow2(n) == 2 ^ n

RECURSIVE Pow2Mod(_, _)
\* 2^i modulo t, by repeated squaring
Pow2Mod(i, t) ==
    IF i = 0 THEN 1 % t
    ELSE LET h == Pow2Mod(i \div 2, t)
         IN  (h * h * (IF i % 2 = 1 THEN 2 ELSE 1)) % t

\* remainder of the long division r / t after i bits
RemAfter(r, t, i) == (r * Pow2Mod(i, t)) % t

\* the next n bits of the long division r / t
QuotBits(r, t, n) == [j \in 1..n |-> (2 * RemAfter(r, t, j - 1)) \div t]

\* the bit string plus one
BitsInc(s) ==
    LET zeros == {i \in 1..Len(s) : s[i] = 0}
    IN  IF zeros = {} THEN <<1>> \o [i \in 1..Len(s) |-> 0]
        ELSE LET j == CHOOSE i \in zeros : \A k \in zeros : k <= i
             IN  [i \in 1..Len(s) |-> IF i < j THEN s[i] ELSE IF i = j THEN 1 ELSE 0]

\* the w low bits of v
BitsFixed(v, w) == [i \in 1..w |-> (v \div Pow2(w - i)) % 2]

RECURSIVE BitsOfInt(_)
BitsOfInt(c) == IF c = 0 THEN <<>> ELSE BitsOfInt(c \div 2) \o <<c % 2>>

RECURSIVE IntOfBits(_)
IntOfBits(s) ==
    IF s = <<>> THEN 0
    ELSE IF Len(s) = 1 THEN s[1]
    ELSE IntOfBits(SubSeq(s, 1, Len(s) \div 2)) * Pow2(Len(s) - (Len(s) \div 2))
         + IntOfBits(SubSeq(s, (Len(s) \div 2) + 1, Len(s)))

RECURSIVE BitsMul(_, _, _)
\* the bit string times the small integer q, plus the carry c, computed a
\* limb of LimbBits bits at a time from the low end
BitsMul(s, q, c) ==
    IF Len(s) <= LimbBits
    THEN LET v == IntOfBits(s) * q + c
         IN  BitsOfInt(v \div Pow2(Len(s))) \o BitsFixed(v % Pow2(Len(s)), Len(s))
    ELSE LET v == IntOfBits(SubSeq(s, Len(s) - LimbBits + 1, Len(s))) * q + c
         IN  BitsMul(SubSeq(s, 1, Len(s) - LimbBits), q, v \div Pow2(LimbBits))
             \o BitsFixed(v % Pow2(LimbBits), LimbBits)

\* round an exact bit string with last-bit exponent e to MantissaBits bits
FloatRound(bits, e, sticky) ==
    LET d == Len(bits) - MantissaBits
    IN  IF d <= 0 /\ ~sticky THEN [m |-> bits, e |-> e]
        ELSE LET keep == SubSeq(bits, 1, MantissaBits)
                 half == d > 0 /\ bits[MantissaBits + 1] = 1
                 rest == sticky \/ \E i \in (MantissaBits + 2)..Len(bits) : bits[i] = 1
                 up   == half /\ (rest \/ keep[MantissaBits] = 1)
                 inc  == BitsInc(keep)
             IN  IF ~up THEN [m |-> keep, e |-> e + d]
                 ELSE IF Len(inc) > MantissaBits
                      THEN [m |-> SubSeq(inc, 1, MantissaBits), e |-> e + d + 1]
                      ELSE [m |-> inc, e |-> e + d]

\* a / b for integers 0 <= a <= b, 0 < b: Python's true division
FloatDiv(a, b) ==
    IF a = 0 THEN [m |-> <<>>, e |-> 0]
    ELSE LET t == 2 * b                  \* a / b = 2 * (a / t), a / t < 1
             k == LeadPos(a, t)
             r == RemAfter(a, t, k - 1)
             bits == QuotBits(r, t, MantissaBits + 1)
             rem  == RemAfter(r, t, MantissaBits + 1)
         IN  FloatRound(bits, 1 - (k + MantissaBits), rem # 0)

\* x * q for a small positive integer q
FloatMul(x, q) ==
    IF x.m = <<>> THEN x ELSE FloatRound(BitsMul(x.m, q, 0), x.e, FALSE)

\* int(x) for x >= 0: truncation toward zero
FloatInt(x) ==
    IF x.m = <<>> THEN 0
    ELSE IF x.e >= 0 THEN IntOfBits(x.m \o [i \in 1..x.e |-> 0])
    ELSE IF Len(x.m) + x.e <= 0 THEN 0
    ELSE IntOfBits(SubSeq(x.m, 1, Len(x.m) + x.e))

-----------------------------------------------------------------------------
(* Inputs *)

UserIds == {1, 2}
\* an admin set that holds an ordinary user
AdminIds_with_user == {9, 1}
AdminIds == {9}                       \* ADMIN_IDS
ValidFileIds == {"BAACAgUAAxkBAAIBfileA", "BAACAgUAAxkBAAIBfileB",
                 "BAACAgUAAxkBAAIBfileC"}
FileIds == ValidFileIds \cup {"AgADshort", ""}
\* the file ids of the prepared catalogs, in the order of their posts
CatalogFileIds == <<"BAACAgUAAxkBAAIBfile1", "BAACAgUAAxkBAAIBfile2", "BAACAgUAAxkBAAIBfile3",
                    "BAACAgUAAxkBAAIBfile4", "BAACAgUAAxkBAAIBfile5", "BAACAgUAAxkBAAIBfile6",
                    "BAACAgUAAxkBAAIBfile7", "BAACAgUAAxkBAAIBfile8">>
\* query.data of the category keyboard, split at "_" (str.split('_'))
CallbackData == {<<"cat", "mix">>, <<"cat", "1">>, <<"cat", "2">>, <<"cat", "x">>,
                 <<"cat", "7">>, <<"cat", "">>}
SendOutcomes == {"ok", "file_error", "error"}
\* str(update.channel_post.chat.id): the four category channels and another one
ChannelIds == {"ch1", "ch2", "ch3", "ch4", "other"}

\* a table that lists the channels one category late
channel_ids_shifted == [c \in 1..NumCategories |->
                           CASE c = 1 -> "ch4" [] c = 2 -> "ch1" [] c = 3 -> "ch2" [] OTHER -> "ch3"]

\* self.channel_ids: category -> channel id
channel_ids == [c \in 1..NumCategories |->
                   CASE c = 1 -> "ch1" [] c = 2 -> "ch2" [] c = 3 -> "ch3" [] OTHER -> "ch4"]

-----------------------------------------------------------------------------
(* The stores *)

\* a new user placed at index 1
NewUser_at_one(user_id) ==
    [user_id |-> user_id, is_premium |-> FALSE, premium_expires |-> None,
     current_category |-> 1, current_video_index |-> 1, watched_videos |-> 0]

\* a document of db.users as start_command creates it (username, first_name
\* and join_date are never read by a handler and are left out)
NewUser(user_id) ==
    [user_id |-> user_id, is_premium |-> FALSE, premium_expires |-> None,
     current_category |-> 1, current_video_index |-> 0, watched_videos |-> 0]

\* find_one({"user_id": user_id}): the document found, as a set of at most one
get_user_data(user_id) ==
    LET found == {d \in users : d.user_id = user_id}
    IN  IF found = {} THEN {} ELSE {CHOOSE d \in found : TRUE}

\* update_one({"user_id": user_id}, {"$set": user_data}, upsert=True): db.users after it
save_user_data(user_id, user_data) ==
    LET data  == [user_data EXCEPT !.user_id = user_id]
        found == {d \in users : d.user_id = user_id}
    IN  IF found = {} THEN users \cup {data}
        ELSE (users \ {CHOOSE d \in found : TRUE}) \cup {data}

\* an insert with no unique index on file_id
add_video_to_db_no_index(file_id, category) ==
    [videos |-> Append(videos, [id |-> Len(videos) + 1, file_id |-> file_id,
                                category |-> category]),
     added |-> TRUE]

\* insert_one under the unique index on file_id: the catalog after it, and
\* whether the video was added; the _id is the insertion number
add_video_to_db(file_id, category) ==
    IF \E i \in 1..Len(videos) : videos[i].file_id = file_id
    THEN [videos |-> videos, added |-> FALSE]
    ELSE [videos |-> Append(videos, [id |-> Len(videos) + 1, file_id |-> file_id,
                                     category |-> category]),
          added |-> TRUE]

\* a query that leaves the category out
get_videos_by_category_all(category) == videos

\* find({"category": category}).sort("added_date", 1)
get_videos_by_category(category) ==
    SelectSeq(videos, LAMBDA v : v.category = category)

\* a sample that is the whole catalog, whatever the size asked for
sample_all(size) == {videos}

\* aggregate([{"$sample": {"size": size}}]): the lists a call may return,
\* min(size, catalog size) documents drawn without repetition, in any order
sample(size) ==
    LET n == Len(videos)
        k == IF n < size THEN n ELSE size
    IN  {[i \in 1..k |-> videos[p[i]]] : p \in Permutations(1..n)}

\* get_mixed_videos(): the sample of size 100
get_mixed_videos == sample(SampleSize)

\* the list a handler works on: "if category == 0: get_mixed_videos() else ..."
VideoLists(category) ==
    IF category = 0 THEN get_mixed_videos ELSE {get_videos_by_category(category)}

\* the collection whose calls raise while an update is handled, or "none"
Faults == {"none", "users", "videos", "bookmarks", "video_likes"}

\* the list a handler gets: get_videos_by_category and get_mixed_videos
\* answer [] when the query raises
Fetched(category, fault) ==
    IF fault = "videos" THEN {<<>>} ELSE VideoLists(category)

\* "if not file_id or len(file_id) < 20" is the negation of this
ValidFileId(file_id) == file_id # "" /\ Len(file_id) >= MinFileIdLen

\* count_documents for likes and dislikes of the video in the rows of
\* db.video_likes, then the percentage; db_ok = FALSE is a storage call that raises
like_percentage(rows, video_id, db_ok) ==
    IF ~db_ok THEN DefaultPercentage
    ELSE LET total_likes    == Cardinality({r \in rows : r.video_id = video_id /\ r.liked})
             total_dislikes == Cardinality({r \in rows : r.video_id = video_id /\ ~r.liked})
             total_votes    == total_likes + total_dislikes
         IN  IF total_votes = 0 THEN DefaultPercentage
             ELSE FloatInt(FloatMul(FloatDiv(total_likes, total_votes), 100))

get_video_like_percentage(video_id, db_ok) == like_percentage(video_likes, video_id, db_ok)

\* an insert of the vote where the code upserts it
upsert_vote_insert(user_id, video_id, liked) ==
    video_likes \cup {[user_id |-> user_id, video_id |-> video_id, liked |-> liked]}

\* update_one({"user_id", "video_id"}, {"$set": {..., "liked": liked}}, upsert=True)
upsert_vote(user_id, video_id, liked) ==
    LET doc   == [user_id |-> user_id, video_id |-> video_id, liked |-> liked]
        found == {r \in video_likes : r.user_id = user_id /\ r.video_id = video_id}
    IN  IF found = {} THEN video_likes \cup {doc}
        ELSE (video_likes \ {CHOOSE r \in found : TRUE}) \cup {doc}

\* count_documents({"user_id": user_id}) on db.bookmarks
bookmark_count(user_id) ==
    Cardinality({i \in 1..Len(bookmarks) : bookmarks[i].user_id = user_id})

\* a match on the video alone, whoever holds the bookmark
bookmark_exists_any_user(user_id, video_id) ==
    \E i \in 1..Len(bookmarks) : bookmarks[i].video_id = video_id

\* a match that never finds the pair
bookmark_exists_never(user_id, video_id) == FALSE

\* the match of a bookmark on (user_id, video_id): find_one({"user_id": user_id,
\* "video_id": video_id}) in the handler, and the unique index on the pair
bookmark_exists(user_id, video_id) ==
    \E i \in 1..Len(bookmarks) :
        bookmarks[i].user_id = user_id /\ bookmarks[i].video_id = video_id

\* insert_one under the unique index on (user_id, video_id): the store after
\* it and whether the insert went through (DuplicateKeyError otherwise)
insert_bookmark(user_id, video) ==
    IF bookmark_exists(user_id, video.id)
    THEN [bookmarks |-> bookmarks, inserted |-> FALSE]
    ELSE [bookmarks |-> Append(bookmarks,
                               [user_id |-> user_id, video_id |-> video.id,
                                file_id |-> video.file_id, category |-> video.category,
                                created_at |-> now]),
          inserted |-> TRUE]

\* a listing that leaves the sort out
oldest_first(user_id) ==
    SelectSeq(bookmarks, LAMBDA b : b.user_id = user_id)

\* find({"user_id": user_id}).sort("created_at", -1) on db.bookmarks.  now
\* counts days; datetime.now() itself has moved on from one insert_one to the
\* next, so of two documents of one day the one inserted later is the newer
newest_first(user_id) ==
    LET rows == {i \in 1..Len(bookmarks) : bookmarks[i].user_id = user_id}
        newer(i, j) == \/ bookmarks[i].created_at > bookmarks[j].created_at
                       \/ bookmarks[i].created_at = bookmarks[j].created_at /\ i > j
        place(i) == 1 + Cardinality({j \in rows : newer(j, i)})
    IN  [k \in 1..Cardinality(rows) |-> bookmarks[CHOOSE i \in rows : place(i) = k]]

\* the stored flag, whatever premium_expires says
premium_status_stored(user_data) == user_data.is_premium

\* the "Check premium status" block of the handlers: the stored flag, unless
\* premium_expires is set and lies before datetime.now()
premium_status(user_data) ==
    IF user_data.is_premium /\ user_data.premium_expires # None
    THEN ~(user_data.premium_expires[1] < now)
    ELSE user_data.is_premium

\* a read that always answers the default
get_bot_setting_default_only(setting_name, default_value, db_ok) == default_value

\* find_one({"setting_name": setting_name}) and setting.get("setting_value",
\* default_value); the default when there is no document or find_one raises
get_bot_setting(setting_name, default_value, db_ok) ==
    LET found == {d \in bot_settings : d.setting_name = setting_name}
    IN  IF ~db_ok \/ found = {} THEN default_value
        ELSE (CHOOSE d \in found : TRUE).setting_value

\* update_one({"setting_name": ...}, {"$set": {"setting_value": ...}},
\* upsert=True): db.bot_settings after it
set_bot_setting(setting_name, setting_value) ==
    {d \in bot_settings : d.setting_name # setting_name}
        \cup {[setting_name |-> setting_name, setting_value |-> setting_value]}

\* Python's int() on the tokens used here: one decimal digit, with or without
\* a minus sign, or ValueError
py_int(text) ==
    LET digits == <<"0", "1", "2", "3", "4", "5", "6", "7", "8", "9">>
        hits   == {i \in 1..10 : digits[i] = text}
        minus  == {i \in 1..10 : "-" \o digits[i] = text}
    IN  IF hits # {} THEN [ok |-> TRUE, value |-> (CHOOSE i \in hits : TRUE) - 1]
        ELSE IF minus # {} THEN [ok |-> TRUE, value |-> 1 - (CHOOSE i \in minus : TRUE)]
        ELSE [ok |-> FALSE, value |-> 0]

\* "cat_mix" is 0; else int(callback_data.split('_')[1]), and 1 on ValueError
parse_category(callback_data) ==
    IF callback_data = <<"cat", "mix">> THEN 0
    ELSE IF py_int(callback_data[2]).ok THEN py_int(callback_data[2]).value
    ELSE 1

\* a skip of one entry, whatever comes after it
next_valid_index_one_step(vs, current_index) == (current_index + 1) % Len(vs)

\* the skip loop of navigate_video: the first index after current_index, going
\* round the list once, whose file_id is valid; -1 when there is none
next_valid_index(vs, current_index) ==
    LET steps == {k \in 1..Len(vs) :
                     ValidFileId(vs[((current_index + k) % Len(vs)) + 1].file_id)}
    IN  IF steps = {} THEN -1 ELSE (current_index + Min(steps)) % Len(vs)

-----------------------------------------------------------------------------
(* What a handler answered.  video is the _id of the video handed to the     *)
(* transport (0: none), index the current_video_index the handler ended      *)
(* with, from_index and from_video the index it read and the video there,    *)
(* pct the percentage of the caption (-1: none), db_ok whether the vote      *)
(* store answered, download the callback of the keyboard's third button,     *)
(* premium_users the count of the /stats report, token what followed "cat_"  *)
(* in the callback data, file_id the file id of the channel post, landed the *)
(* index that navigate_video saved before it looked at the entry there (-1:  *)
(* none).  follows observes the update handled just before: see Follows.     *)
(* failed_sends and total_users are the counts of a broadcast report, request *)
(* the number of the request taken call by call that answered (0: a handler  *)
(* taken whole).                                                             *)

Answer(op, user_id, result) ==
    [op |-> op, user |-> user_id, result |-> result, video |-> 0, index |-> -1,
     total |-> 0, is_premium |-> FALSE, download |-> "", pct |-> -1, db_ok |-> TRUE,
     from_index |-> -1, from_video |-> 0, premium_users |-> -1, token |-> "",
     file_id |-> "", landed |-> -1, follows |-> FALSE, channel |-> "",
     fault |-> "none", args |-> <<>>, sends |-> 0, settings |-> <<>>,
     listed |-> <<>>, failed_sends |-> 0, total_users |-> 0, request |-> 0]

\* the third button of create_video_keyboard
create_video_keyboard(is_premium) ==
    IF is_premium THEN "download_video" ELSE "premium_required"

\* observer: the update handled just before was the request this one pairs
\* with: the same bookmark request, "prev" before "next", "like" before
\* "dislike" of the same video, "get_video" before a "get_video" that sends
\* another video, each by the same user
Follows(op, user_id, video) ==
    /\ last.user = user_id
    /\ \/ op = "bookmark" /\ last.op = "bookmark" /\ video # 0 /\ last.video = video
       \/ op = "next" /\ last.op = "prev" /\ last.result = "Video"
       \/ op = "dislike" /\ last.op = "like" /\ last.result = "Voted" /\ last.video = video
       \/ op = "get_video" /\ last.op = "get_video" /\ last.result = "Video"
          /\ video # 0 /\ last.video # video

Shown(op, user_id, video, index, total, is_premium, pct, db_ok, from_index, from_video) ==
    [Answer(op, user_id, "Video") EXCEPT
        !.video = video, !.index = index, !.total = total, !.is_premium = is_premium,
        !.download = create_video_keyboard(is_premium), !.pct = pct, !.db_ok = db_ok,
        !.from_index = from_index, !.from_video = from_video,
        !.follows = Follows(op, user_id, video)]

NoRun == [user |-> 0, video |-> 0, index |-> 0, n |-> 0]

VideoAt(vs, index) == IF index < Len(vs) THEN vs[index + 1].id ELSE 0

-----------------------------------------------------------------------------
(* The handlers *)

\* /start; read_ok = FALSE is find_one raising in get_user_data, which then
\* returns None as it does for a user without a document
start_command(user_id, read_ok) ==
    /\ users' = IF ~read_ok \/ get_user_data(user_id) = {}
                THEN save_user_data(user_id, NewUser(user_id))
                ELSE users
    /\ last' = [Answer("start", user_id, "Welcome") EXCEPT !.db_ok = read_ok]
    /\ run' = NoRun
    /\ UNCHANGED <<videos, bookmarks, video_likes, now, bot_settings, shelf, inflight, toggled, shown,
                   auto_delete_enabled, chat, broadcast>>

\* what the observer holds after an answer to user_id: the video of the
\* answer when one was sent, for a user it follows
Seen(user_id, answer) ==
    IF user_id \in DOMAIN shown /\ answer.result \in {"Video", "Undeleted"}
    THEN [shown EXCEPT ![user_id] = answer.video]
    ELSE shown

\* the chat after an answer of get_video_callback or category_selection_callback:
\* a video sent is a new message; its deletion task is created after
\* send_video and, in get_video_callback, after query.delete_message(), so a
\* video sent by an answer that raised there ("Undeleted") has none
Posted(user_id, answer) ==
    IF auto_delete_enabled /\ answer.result \in {"Video", "Undeleted"}
    THEN Append(chat, [user |-> user_id, video |-> answer.video,
                       timer |-> answer.result = "Video", attempts |-> 0,
                       due |-> now + auto_delete_minutes])
    ELSE chat

\* the "status" button
status_callback(user_id) ==
    /\ IF get_user_data(user_id) = {}
       THEN /\ last' = Answer("status", user_id, "NotFound")
            /\ UNCHANGED users
       ELSE LET user_data == CHOOSE d \in get_user_data(user_id) : TRUE
                expired   == /\ user_data.is_premium
                             /\ user_data.premium_expires # None
                             /\ user_data.premium_expires[1] < now
            IN  /\ users' = IF expired
                            THEN save_user_data(user_id, [user_data EXCEPT !.is_premium = FALSE])
                            ELSE users
                /\ last' = [Answer("status", user_id, "Status") EXCEPT
                               !.is_premium = IF expired THEN FALSE ELSE user_data.is_premium,
                               !.total = user_data.watched_videos]
    /\ run' = NoRun
    /\ UNCHANGED <<videos, bookmarks, video_likes, now, bot_settings, shelf, inflight, toggled, shown,
                   auto_delete_enabled, chat, broadcast>>

\* a clamp to the last entry of the list
clamp_index_to_last(video_index, n) ==
    IF video_index >= n THEN n - 1 ELSE video_index

\* "if video_index >= len(videos): video_index = 0"
clamp_index(video_index, n) ==
    IF video_index >= n THEN 0 ELSE video_index

\* the "get_video" button; send is what `await send_video` does with a valid
\* file_id: it returns, raises a file-identifier error, or raises another
\* error; "undeleted" is send_video returning and the query.delete_message()
\* after it raising (the menu message is gone already)
get_video_callback(user_id, send, db_ok) ==
    /\ IF get_user_data(user_id) = {}
       THEN /\ last' = Answer("get_video", user_id, "NotFound")
            /\ run' = NoRun
            /\ UNCHANGED users
       ELSE LET user_data == CHOOSE d \in get_user_data(user_id) : TRUE
            IN  \E vs \in VideoLists(user_data.current_category) :
                  IF vs = <<>>
                  THEN /\ last' = Answer("get_video", user_id, "NoVideosInCategory")
                       /\ run' = NoRun
                       /\ UNCHANGED users
                  ELSE LET video_index  == clamp_index(user_data.current_video_index, Len(vs))
                           clamp        == video_index # user_data.current_video_index
                           clamped      == [user_data EXCEPT !.current_video_index = video_index]
                           current_video == vs[video_index + 1]
                           is_premium   == premium_status(user_data)
                           pct          == get_video_like_percentage(current_video.id, db_ok)
                           skipped      == [clamped EXCEPT !.current_video_index =
                                                                (video_index + 1) % Len(vs)]
                       IN  IF ~ValidFileId(current_video.file_id)
                           THEN /\ users' = save_user_data(user_id, skipped)
                                /\ last' = [Answer("get_video", user_id, "SkippedInvalid") EXCEPT
                                               !.index = skipped.current_video_index,
                                               !.total = Len(vs),
                                               !.from_index = user_data.current_video_index]
                                /\ run' = NoRun
                           ELSE IF send = "ok"
                           THEN /\ users' = IF clamp THEN save_user_data(user_id, clamped)
                                            ELSE users
                                /\ last' = Shown("get_video", user_id, current_video.id,
                                                 video_index, Len(vs), is_premium, pct, db_ok,
                                                 user_data.current_video_index,
                                                 VideoAt(vs, user_data.current_video_index))
                                /\ run' = [user |-> user_id, video |-> current_video.id,
                                           index |-> video_index, n |-> 0]
                           ELSE IF send = "file_error"
                           THEN /\ users' = save_user_data(user_id, skipped)
                                /\ last' = [Answer("get_video", user_id, "AutoSkip") EXCEPT
                                               !.index = skipped.current_video_index,
                                               !.total = Len(vs),
                                               !.from_index = user_data.current_video_index]
                                /\ run' = NoRun
                           ELSE IF send = "undeleted"
                           THEN /\ users' = IF clamp THEN save_user_data(user_id, clamped)
                                            ELSE users
                                /\ last' = [Answer("get_video", user_id, "Undeleted") EXCEPT
                                               !.video = current_video.id,
                                               !.index = video_index, !.total = Len(vs),
                                               !.from_index = user_data.current_video_index]
                                /\ run' = NoRun
                           ELSE /\ users' = IF clamp THEN save_user_data(user_id, clamped)
                                            ELSE users
                                /\ last' = [Answer("get_video", user_id, "LoadError") EXCEPT
                                               !.index = video_index, !.total = Len(vs),
                                               !.from_index = user_data.current_video_index]
                                /\ run' = NoRun
    /\ UNCHANGED <<videos, bookmarks, video_likes, now, bot_settings, shelf, inflight, toggled, auto_delete_enabled,
                   broadcast>>
    /\ shown' = Seen(user_id, last')
    /\ chat' = Posted(user_id, last')
    /\ Len(chat') <= MaxMessages

\* the two directions taken for one another
advance_index_reversed(current_index, direction, n) ==
    IF direction = "next" THEN (current_index - 1) % n ELSE (current_index + 1) % n

\* a forward step that stops at the end of the list
advance_index_no_wrap(current_index, direction, n) ==
    IF direction = "next"
    THEN (IF current_index + 1 < n THEN current_index + 1 ELSE current_index)
    ELSE (current_index - 1) % n

\* a backward step that stops at the start of the list
advance_index_stop_at_first(current_index, direction, n) ==
    IF direction = "next" THEN (current_index + 1) % n
    ELSE (IF current_index = 0 THEN 0 ELSE current_index - 1)

\* "Update video index": one step forward or back, round the list
advance_index(current_index, direction, n) ==
    IF direction = "next" THEN (current_index + 1) % n ELSE (current_index - 1) % n

\* the "next_video" and "prev_video" buttons; run() registers them with the
\* directions "next" and "prev", and any direction but "next" goes back
navigate_video(user_id, direction, db_ok) ==
    /\ direction = "next" =>
           \A d \in get_user_data(user_id) : d.watched_videos < MaxWatched
    /\ IF get_user_data(user_id) = {}
       THEN /\ last' = Answer(direction, user_id, "NotFound")
            /\ run' = NoRun
            /\ UNCHANGED users
       ELSE LET user_data == CHOOSE d \in get_user_data(user_id) : TRUE
            IN  \E vs \in VideoLists(user_data.current_category) :
                  IF vs = <<>>
                  THEN /\ last' = Answer(direction, user_id, "NoVideosInCategory")
                       /\ run' = NoRun
                       /\ UNCHANGED users
                  ELSE LET old_index == user_data.current_video_index
                           current_index == advance_index(old_index, direction, Len(vs))
                           moved == [user_data EXCEPT
                                        !.watched_videos =
                                            IF direction = "next" THEN @ + 1 ELSE @,
                                        !.current_video_index = current_index]
                           is_premium == premium_status(user_data)
                           valid == ValidFileId(vs[current_index + 1].file_id)
                           skip_index == next_valid_index(vs, current_index)
                           final_index == IF valid THEN current_index ELSE skip_index
                       IN  IF final_index = -1
                           THEN /\ users' = save_user_data(user_id, moved)
                                /\ last' = [Answer(direction, user_id, "NoValidVideos") EXCEPT
                                               !.index = current_index, !.total = Len(vs),
                                               !.landed = current_index,
                                               !.from_index = old_index,
                                               !.from_video = VideoAt(vs, old_index)]
                                /\ run' = NoRun
                           ELSE /\ users' = save_user_data(user_id,
                                                [moved EXCEPT !.current_video_index = final_index])
                                /\ last' = [Shown(direction, user_id, vs[final_index + 1].id,
                                                  final_index, Len(vs), is_premium,
                                                  get_video_like_percentage(
                                                      vs[final_index + 1].id, db_ok),
                                                  db_ok, old_index, VideoAt(vs, old_index))
                                            EXCEPT !.landed = current_index]
                                /\ run' = IF direction = "next" /\ run.user = user_id
                                          THEN [run EXCEPT !.n = @ + 1]
                                          ELSE NoRun
    /\ UNCHANGED <<videos, bookmarks, video_likes, now, bot_settings, shelf, inflight, toggled, auto_delete_enabled, chat,
                   broadcast>>
    /\ shown' = Seen(user_id, last')

\* a switch that keeps the index of the category left
switch_category_keep_index(user_data, category) ==
    [user_data EXCEPT !.current_category = category]

\* "Update user category": the document category_selection_callback saves
switch_category(user_data, category) ==
    [user_data EXCEPT !.current_category = category, !.current_video_index = 0]

\* a "cat_..." button; the first video is sent without a check of its file_id,
\* and send_video raises on one that is not valid
category_selection_callback(user_id, callback_data, db_ok) ==
    /\ IF get_user_data(user_id) = {}
       THEN /\ last' = [Answer("category", user_id, "NotFound") EXCEPT
                           !.token = callback_data[2]]
            /\ UNCHANGED users
       ELSE LET user_data == CHOOSE d \in get_user_data(user_id) : TRUE
                category  == parse_category(callback_data)
                switched  == switch_category(user_data, category)
            IN  /\ users' = save_user_data(user_id, switched)
                /\ \E vs \in VideoLists(category) :
                     IF vs = <<>>
                     THEN last' = [Answer("category", user_id, "NoVideosInCategory") EXCEPT
                                      !.index = 0, !.token = callback_data[2],
                                      !.from_index = user_data.current_video_index]
                     ELSE IF ValidFileId(vs[1].file_id)
                     THEN last' = [Shown("category", user_id, vs[1].id, 0, Len(vs),
                                         premium_status(switched),
                                         get_video_like_percentage(vs[1].id, db_ok), db_ok,
                                         user_data.current_video_index, 0)
                                   EXCEPT !.token = callback_data[2]]
                     ELSE last' = [Answer("category", user_id, "LoadError") EXCEPT
                                      !.index = 0, !.total = Len(vs),
                                      !.token = callback_data[2],
                                      !.from_index = user_data.current_video_index]
    /\ run' = NoRun
    /\ UNCHANGED <<videos, bookmarks, video_likes, now, bot_settings, shelf, inflight, toggled, auto_delete_enabled,
                   broadcast>>
    /\ shown' = Seen(user_id, last')
    /\ chat' = Posted(user_id, last')
    /\ Len(chat') <= MaxMessages

\* an index taken round the list instead of being refused
current_entry_wrapped(vs, current_index) == <<vs[(current_index % Len(vs)) + 1]>>

\* "if current_index >= len(videos): ... return" and "current_video =
\* videos[current_index]" of the like, dislike and bookmark buttons, on a list
\* that is not empty: the entry to act on, or none
current_entry(vs, current_index) ==
    IF current_index >= Len(vs) THEN <<>> ELSE <<vs[current_index + 1]>>

\* a limit check that lets the count pass the limit by one
bookmark_limit_reached_late(user_id) == bookmark_count(user_id) > BookmarkLimit

\* "Check if user already has 5 bookmarks"
bookmark_limit_reached(user_id) == bookmark_count(user_id) >= BookmarkLimit

\* the "bookmark_video" button.  get_user_data and the list queries catch what
\* the storage raises and answer None and []; count_documents and find_one on
\* db.bookmarks are outside every try, so what they raise leaves the handler
bookmark_video_callback(user_id, fault) ==
    /\ IF fault = "users" \/ get_user_data(user_id) = {}
       THEN /\ last' = [Answer("bookmark", user_id, "NotFound") EXCEPT !.fault = fault]
            /\ UNCHANGED bookmarks
       ELSE LET user_data == CHOOSE d \in get_user_data(user_id) : TRUE
            IN  \E vs \in Fetched(user_data.current_category, fault) :
                  IF vs = <<>>
                  THEN /\ last' = [Answer("bookmark", user_id, "NoVideosInCategory") EXCEPT
                                      !.fault = fault]
                       /\ UNCHANGED bookmarks
                  ELSE IF current_entry(vs, user_data.current_video_index) = <<>>
                  THEN /\ last' = [Answer("bookmark", user_id, "InvalidIndex") EXCEPT
                                      !.fault = fault]
                       /\ UNCHANGED bookmarks
                  ELSE LET current_video == current_entry(vs, user_data.current_video_index)[1]
                           inserted == insert_bookmark(user_id, current_video)
                           about(result) ==
                               [Answer("bookmark", user_id, result) EXCEPT
                                   !.video = current_video.id,
                                   !.follows = Follows("bookmark", user_id, current_video.id),
                                   !.index = user_data.current_video_index,
                                   !.total = Len(vs),
                                   !.fault = fault]
                       IN  IF fault = "bookmarks"
                           THEN /\ last' = about("Unhandled")
                                /\ UNCHANGED bookmarks
                           ELSE IF bookmark_limit_reached(user_id)
                           THEN /\ last' = about("LimitExceeded")
                                /\ UNCHANGED bookmarks
                           ELSE IF bookmark_exists(user_id, current_video.id)
                           THEN /\ last' = about("AlreadyBookmarked")
                                /\ UNCHANGED bookmarks
                           ELSE /\ bookmarks' = inserted.bookmarks
                                /\ last' = about(IF inserted.inserted THEN "Bookmarked"
                                                 ELSE "Error")
    /\ run' = NoRun
    /\ UNCHANGED <<users, videos, video_likes, now, bot_settings, shelf, inflight, toggled, shown,
                   auto_delete_enabled, chat, broadcast>>

\* the "like_video" (liked = TRUE) and "dislike_video" (liked = FALSE) buttons.
\* update_one on db.video_likes is outside every try; db_ok = FALSE is the
\* count of the percentage raising after the vote was stored
vote_video_callback(user_id, liked, fault, db_ok) ==
    LET op == IF liked THEN "like" ELSE "dislike"
    IN  /\ IF fault = "users" \/ get_user_data(user_id) = {}
           THEN /\ last' = [Answer(op, user_id, "NotFound") EXCEPT !.fault = fault]
                /\ UNCHANGED video_likes
           ELSE LET user_data == CHOOSE d \in get_user_data(user_id) : TRUE
                IN  \E vs \in Fetched(user_data.current_category, fault) :
                      IF vs = <<>>
                      THEN /\ last' = [Answer(op, user_id, "NoVideosInCategory") EXCEPT
                                          !.fault = fault]
                           /\ UNCHANGED video_likes
                      ELSE IF current_entry(vs, user_data.current_video_index) = <<>>
                      THEN /\ last' = [Answer(op, user_id, "InvalidIndex") EXCEPT
                                          !.fault = fault]
                           /\ UNCHANGED video_likes
                      ELSE LET video_id == current_entry(vs, user_data.current_video_index)[1].id
                           IN  IF fault = "video_likes"
                               THEN /\ last' = [Answer(op, user_id, "Unhandled") EXCEPT
                                                   !.video = video_id, !.fault = fault]
                                    /\ UNCHANGED video_likes
                               ELSE
                               /\ video_likes' = upsert_vote(user_id, video_id, liked)
                               /\ last' = [Answer(op, user_id, "Voted") EXCEPT
                                              !.video = video_id,
                                              !.index = user_data.current_video_index,
                                              !.total = Len(vs),
                                              !.is_premium = premium_status(user_data),
                                              !.download = create_video_keyboard(
                                                               premium_status(user_data)),
                                              !.follows = Follows(op, user_id, video_id),
                                              !.pct = like_percentage(
                                                          upsert_vote(user_id, video_id, liked),
                                                          video_id, db_ok),
                                              !.db_ok = db_ok]
        /\ run' = NoRun
        /\ UNCHANGED <<users, videos, bookmarks, now, bot_settings, shelf, inflight, toggled, shown,
                   auto_delete_enabled, chat, broadcast>>

like_video_callback(user_id, fault, db_ok) ==
    vote_video_callback(user_id, TRUE, fault, db_ok)

dislike_video_callback(user_id, fault, db_ok) ==
    vote_video_callback(user_id, FALSE, fault, db_ok)

\* the arguments of "/setpremium <user_id> <days>" as the handler reads them:
\* too few, int() raising ValueError, or the two numbers
parse_premium_args(args) ==
    IF Len(args) < 2 THEN [result |-> "Usage", target_user_id |-> 0, days |-> 0]
    ELSE IF ~py_int(args[1]).ok \/ ~py_int(args[2]).ok
    THEN [result |-> "InvalidArguments", target_user_id |-> 0, days |-> 0]
    ELSE [result |-> "ok", target_user_id |-> py_int(args[1]).value,
          days |-> py_int(args[2]).value]

\* a grant that runs out the day it is made
expires_date_today(days) == <<now>>

\* expires_date = datetime.now() + timedelta(days=days)
expires_date(days) == <<now + days>>

\* /setpremium with context.args = args
set_premium_command(caller, args) ==
    /\ IF caller \notin AdminIds
       THEN /\ last' = [Answer("setpremium", caller, "PermissionDenied") EXCEPT !.args = args]
            /\ UNCHANGED users
       ELSE LET parsed == parse_premium_args(args)
                target_user_id == parsed.target_user_id
            IN  IF parsed.result # "ok"
                THEN /\ last' = [Answer("setpremium", caller, parsed.result) EXCEPT
                                    !.args = args]
                     /\ UNCHANGED users
                ELSE IF get_user_data(target_user_id) = {}
                THEN /\ last' = [Answer("setpremium", caller, "NotFound") EXCEPT
                                    !.args = args]
                     /\ UNCHANGED users
                ELSE LET user_data == CHOOSE d \in get_user_data(target_user_id) : TRUE
                     IN  /\ users' = save_user_data(target_user_id,
                                         [user_data EXCEPT
                                             !.is_premium = TRUE,
                                             !.premium_expires = expires_date(parsed.days)])
                         /\ last' = [Answer("setpremium", caller, "PremiumSet") EXCEPT
                                        !.args = args]
    /\ run' = NoRun
    /\ UNCHANGED <<videos, bookmarks, video_likes, now, bot_settings, shelf, inflight, toggled, shown,
                   auto_delete_enabled, chat, broadcast>>

\* /removepremium <user_id>
remove_premium_command(caller, target_user_id) ==
    /\ IF caller \notin AdminIds
       THEN /\ last' = [Answer("removepremium", caller, "PermissionDenied") EXCEPT
                       !.args = <<ToString(target_user_id)>>]
            /\ UNCHANGED users
       ELSE IF get_user_data(target_user_id) = {}
       THEN /\ last' = [Answer("removepremium", caller, "NotFound") EXCEPT
                       !.args = <<ToString(target_user_id)>>]
            /\ UNCHANGED users
       ELSE LET user_data == CHOOSE d \in get_user_data(target_user_id) : TRUE
            IN  /\ users' = save_user_data(target_user_id,
                                [user_data EXCEPT !.is_premium = FALSE,
                                                  !.premium_expires = None])
                /\ last' = [Answer("removepremium", caller, "PremiumRemoved") EXCEPT
                       !.args = <<ToString(target_user_id)>>]
    /\ run' = NoRun
    /\ UNCHANGED <<videos, bookmarks, video_likes, now, bot_settings, shelf, inflight, toggled, shown,
                   auto_delete_enabled, chat, broadcast>>

\* /stats: premium_users is count_documents({"is_premium": True})
stats_command(caller) ==
    /\ last' = IF caller \notin AdminIds
               THEN Answer("stats", caller, "PermissionDenied")
               ELSE [Answer("stats", caller, "Stats") EXCEPT
                        !.total = Cardinality(users),
                        !.premium_users = Cardinality({d \in users : d.is_premium})]
    /\ run' = NoRun
    /\ UNCHANGED <<users, videos, bookmarks, video_likes, now, bot_settings, shelf, inflight, toggled, shown,
                   auto_delete_enabled, chat, broadcast>>

\* /mybookmarks of main.py: the documents found, each sent as a video, of
\* which delivered arrive
mybookmarks_command(user_id, delivered) ==
    LET found == newest_first(user_id)
    IN  /\ last' = IF found = <<>>
                   THEN Answer("listbookmarks", user_id, "NoBookmarks")
                   ELSE [Answer("listbookmarks", user_id, "List") EXCEPT
                            !.listed = found,
                            !.sends = Len(found),
                            !.total = IF delivered < Len(found) THEN delivered
                                      ELSE Len(found)]
        /\ run' = NoRun
        /\ UNCHANGED <<users, videos, bookmarks, video_likes, now, bot_settings, shelf,
                       inflight, toggled, shown,
                       auto_delete_enabled, broadcast>>
        /\ chat' = IF auto_delete_enabled
                   THEN chat \o [i \in 1..last'.total |->
                                    [user |-> user_id, video |-> found[i].video_id,
                                     timer |-> TRUE, attempts |-> 0,
                                     due |-> now + auto_delete_minutes]]
                   ELSE chat
        /\ Len(chat') <= MaxMessages

\* no /broadcast is being handled
NoBroadcast ==
    [pc |-> "idle", caller |-> 0, users |-> <<>>, i |-> 0,
     successful_sends |-> 0, failed_sends |-> 0]

\* list(self.db.users.find({}, {"user_id": 1})): one entry per document
list_user_ids ==
    LET ids == {d.user_id : d \in users}
    IN  CHOOSE s \in [1..Cardinality(ids) -> ids] :
            \A a, b \in 1..Cardinality(ids) : a < b => s[a] < s[b]

\* /broadcast <message>, up to the loop: the checks, the list of users read
\* once (db_ok = FALSE is find raising) and the "Starting broadcast" reply
\* (announced = FALSE is reply_text raising); either failure is answered
\* "Error during broadcast" by the outer except
broadcast_command(caller, args, db_ok, announced) ==
    /\ broadcast.pc = "idle"
    /\ IF caller \notin AdminIds
       THEN /\ last' = [Answer("broadcast", caller, "PermissionDenied") EXCEPT !.args = args]
            /\ UNCHANGED broadcast
       ELSE IF args = <<>>
       THEN /\ last' = [Answer("broadcast", caller, "Usage") EXCEPT !.args = args]
            /\ UNCHANGED broadcast
       ELSE IF ~db_ok \/ ~announced
       THEN /\ last' = [Answer("broadcast", caller, "BroadcastError") EXCEPT
                           !.args = args, !.db_ok = db_ok]
            /\ UNCHANGED broadcast
       ELSE /\ last' = [Answer("broadcast", caller, "Starting") EXCEPT
                           !.args = args, !.total_users = Len(list_user_ids)]
            /\ broadcast' = [NoBroadcast EXCEPT !.pc = "sending", !.caller = caller,
                                                !.users = list_user_ids]
    /\ run' = NoRun
    /\ UNCHANGED <<users, videos, bookmarks, video_likes, now, bot_settings, shelf, inflight,
                   toggled, shown, auto_delete_enabled, chat>>

\* a loop that ends at the first send that raises
broadcast_send_break(delivered) ==
    /\ broadcast.pc = "sending"
    /\ broadcast.i < Len(broadcast.users)
    /\ broadcast' = IF delivered
                    THEN [broadcast EXCEPT !.i = @ + 1, !.successful_sends = @ + 1]
                    ELSE [broadcast EXCEPT !.i = Len(broadcast.users),
                                           !.failed_sends = @ + 1]
    /\ last' = [Answer("broadcast_send", broadcast.caller,
                        IF delivered THEN "Sent" ELSE "SendFailed") EXCEPT
                   !.landed = broadcast.users[broadcast.i + 1]]
    /\ run' = NoRun
    /\ UNCHANGED <<users, videos, bookmarks, video_likes, now, bot_settings, shelf, inflight,
                   toggled, shown, auto_delete_enabled, chat>>

\* one turn of `for user in users`: send_message to the next user of the list
\* returns (delivered) or raises, and the loop goes on either way
broadcast_send(delivered) ==
    /\ broadcast.pc = "sending"
    /\ broadcast.i < Len(broadcast.users)
    /\ broadcast' = IF delivered
                    THEN [broadcast EXCEPT !.i = @ + 1, !.successful_sends = @ + 1]
                    ELSE [broadcast EXCEPT !.i = @ + 1, !.failed_sends = @ + 1]
    /\ last' = [Answer("broadcast_send", broadcast.caller,
                        IF delivered THEN "Sent" ELSE "SendFailed") EXCEPT
                   !.landed = broadcast.users[broadcast.i + 1]]
    /\ run' = NoRun
    /\ UNCHANGED <<users, videos, bookmarks, video_likes, now, bot_settings, shelf, inflight,
                   toggled, shown, auto_delete_enabled, chat>>

\* the end of the loop: the completion report (reported = FALSE is its
\* reply_text raising, answered "Error during broadcast")
broadcast_report(reported) ==
    /\ broadcast.pc = "sending"
    /\ broadcast.i = Len(broadcast.users)
    /\ last' = [Answer("broadcast_report", broadcast.caller,
                        IF reported THEN "Broadcast" ELSE "BroadcastError") EXCEPT
                   !.sends = broadcast.i,
                   !.total = broadcast.successful_sends,
                   !.failed_sends = broadcast.failed_sends,
                   !.total_users = Len(broadcast.users)]
    /\ broadcast' = NoBroadcast
    /\ run' = NoRun
    /\ UNCHANGED <<users, videos, bookmarks, video_likes, now, bot_settings, shelf, inflight,
                   toggled, shown, auto_delete_enabled, chat>>

\* /toggleforward.  get_bot_setting answers the default when find_one raises
\* (db_ok = FALSE); update_one is outside every try, and write_ok = FALSE is
\* update_one raising
toggle_forward_protection(caller, db_ok, write_ok) ==
    /\ IF caller \notin AdminIds
       THEN /\ last' = Answer("toggleforward", caller, "PermissionDenied")
            /\ UNCHANGED <<bot_settings, toggled>>
       ELSE LET current_setting == get_bot_setting("forward_protection_enabled", FALSE, db_ok)
                new_setting == ~current_setting
            IN  IF ~write_ok
                THEN /\ last' = [Answer("toggleforward", caller, "Unhandled") EXCEPT
                                    !.db_ok = db_ok]
                     /\ UNCHANGED <<bot_settings, toggled>>
                ELSE /\ toggled.writes < MaxToggles
                     /\ bot_settings' = set_bot_setting("forward_protection_enabled",
                                                        new_setting)
                     /\ toggled' = [writes |-> toggled.writes + 1,
                                    blind |-> toggled.blind + (IF db_ok THEN 0 ELSE 1)]
                     /\ last' = [Answer("toggleforward", caller,
                                        IF new_setting THEN "Enabled" ELSE "Disabled") EXCEPT
                                    !.db_ok = db_ok]
    /\ run' = NoRun
    /\ UNCHANGED <<users, videos, bookmarks, video_likes, now, shelf, inflight, shown, auto_delete_enabled, chat,
                   broadcast>>

\* /settings: the three settings it shows, each read with its default
settings_command(caller, db_ok) ==
    /\ last' = IF caller \notin AdminIds
               THEN Answer("settings", caller, "PermissionDenied")
               ELSE [Answer("settings", caller, "Settings") EXCEPT
                        !.db_ok = db_ok,
                        !.settings =
                            <<get_bot_setting("forward_protection_enabled", FALSE, db_ok),
                              get_bot_setting("auto_delete_enabled", TRUE, db_ok),
                              get_bot_setting("auto_delete_minutes", 10, db_ok)>>]
    /\ run' = NoRun
    /\ UNCHANGED <<users, videos, bookmarks, video_likes, now, bot_settings, shelf, inflight,
                   toggled, shown, auto_delete_enabled, chat, broadcast>>

\* src/start.py: the "bookmarks" list of the user's document, [] when the
\* document or the field is missing
shelf_of(user_id) == shelf[user_id]

\* src/start.py: bot.save_user_data(user_id, user_data) with the new list.  For
\* a user without a document the upsert creates one that holds the list only;
\* the handlers of main.py read it with their .get defaults, as a new user's
save_shelf(user_id) ==
    IF get_user_data(user_id) = {} THEN save_user_data(user_id, NewUser(user_id))
    ELSE users

\* list.pop(n - 1)
pop(list, n) == SubSeq(list, 1, n - 1) \o SubSeq(list, n + 1, Len(list))

\* list.remove(x): the list without the first x
remove(list, x) == pop(list, Min({i \in 1..Len(list) : list[i] = x}))

\* src/start.py: the list toggle_bookmark_callback saves for the list it read
after_toggle(list, file_id) ==
    IF \E i \in 1..Len(list) : list[i] = file_id THEN remove(list, file_id)
    ELSE IF Len(list) >= ShelfLimit THEN list
    ELSE Append(list, file_id)

\* src/start.py: the message of toggle_bookmark_callback
toggle_msg(list, file_id) ==
    IF \E i \in 1..Len(list) : list[i] = file_id THEN "Removed"
    ELSE IF Len(list) >= ShelfLimit THEN "LimitExceeded"
    ELSE "Bookmarked"

\* src/start.py: the "bookmark:<file_id>" button.  get_user_data answers None
\* when find_one raises (read_ok = FALSE), and the handler goes on with
\* {"bookmarks": []}; listed observes the list stored before
toggle_bookmark_callback(user_id, file_id, read_ok) ==
    LET list == IF read_ok THEN shelf_of(user_id) ELSE <<>>
    IN  /\ shelf' = [shelf EXCEPT ![user_id] = after_toggle(list, file_id)]
        /\ users' = save_shelf(user_id)
        /\ last' = [Answer("togglebookmark", user_id, toggle_msg(list, file_id)) EXCEPT
                       !.file_id = file_id, !.db_ok = read_ok,
                       !.listed = shelf_of(user_id)]
        /\ run' = NoRun
        /\ UNCHANGED <<videos, bookmarks, video_likes, now, bot_settings, inflight, toggled, shown,
                   auto_delete_enabled, chat, broadcast>>

\* src/start.py: /mybookmarks, the numbered list
my_bookmarks(user_id) ==
    /\ last' = IF shelf_of(user_id) = <<>>
               THEN Answer("mybookmarks", user_id, "NoBookmarks")
               ELSE [Answer("mybookmarks", user_id, "List") EXCEPT
                        !.listed = shelf_of(user_id)]
    /\ run' = NoRun
    /\ UNCHANGED <<users, videos, bookmarks, video_likes, now, bot_settings, shelf, inflight,
                   toggled, shown, auto_delete_enabled, chat, broadcast>>

\* src/start.py: /deletebookmark <number>
delete_bookmark_cmd(user_id, args) ==
    LET list == shelf_of(user_id)
        said(result) == [Answer("deletebookmark", user_id, result) EXCEPT !.args = args]
    IN  /\ IF args = <<>>
           THEN /\ last' = said("Usage")
                /\ UNCHANGED <<shelf, users>>
           ELSE IF ~py_int(args[1]).ok
           THEN /\ last' = said("InvalidNumber")
                /\ UNCHANGED <<shelf, users>>
           ELSE LET n == py_int(args[1]).value
                IN  IF n < 1 \/ n > Len(list)
                    THEN /\ last' = said("NotFound")
                         /\ UNCHANGED <<shelf, users>>
                    ELSE /\ shelf' = [shelf EXCEPT ![user_id] = pop(list, n)]
                         /\ users' = save_shelf(user_id)
                         /\ last' = [said("Removed") EXCEPT !.file_id = list[n]]
        /\ run' = NoRun
        /\ UNCHANGED <<videos, bookmarks, video_likes, now, bot_settings, inflight, toggled, shown,
                   auto_delete_enabled, chat, broadcast>>

\* a video posted to a channel
handle_channel_video(channel_id, file_id) ==
    LET cats == {c \in 1..NumCategories : channel_ids[c] = channel_id}
    IN  /\ IF cats = {}
           THEN /\ last' = [Answer("ingest", 0, "NotMonitored") EXCEPT
                               !.file_id = file_id, !.channel = channel_id]
                /\ UNCHANGED videos
           ELSE LET done == add_video_to_db(file_id, Min(cats))
                IN  /\ videos' = done.videos
                    /\ last' = [Answer("ingest", 0, IF done.added THEN "Indexed"
                                                    ELSE "Duplicate") EXCEPT
                                   !.total = Len(done.videos), !.file_id = file_id,
                                   !.channel = channel_id]
        /\ run' = NoRun
        /\ UNCHANGED <<users, bookmarks, video_likes, now, bot_settings, shelf, inflight, toggled, shown,
                   auto_delete_enabled, chat, broadcast>>

\* one call of the $sample stage for a sample of the given size
draw_sample(size) ==
    /\ \E vs \in sample(size) :
           last' = [Answer("sample", 0, "Sampled") EXCEPT !.listed = vs, !.total = size]
    /\ run' = NoRun
    /\ UNCHANGED <<users, videos, bookmarks, video_likes, now, bot_settings, shelf, inflight,
                   toggled, shown, auto_delete_enabled, chat, broadcast>>

\* a deletion task wakes up after asyncio.sleep(auto_delete_minutes * 60) and
\* attempts the deletion once; a delete_message that raises is logged
delete_video_message(m, deleted) ==
    /\ m \in DOMAIN chat
    /\ chat[m].timer
    /\ now >= chat[m].due
    /\ chat' = [chat EXCEPT ![m].timer = FALSE, ![m].attempts = @ + 1]
    /\ last' = [Answer("autodelete", chat[m].user, IF deleted THEN "Deleted"
                                                   ELSE "DeleteFailed") EXCEPT
                   !.video = chat[m].video]
    /\ run' = NoRun
    /\ UNCHANGED <<users, videos, bookmarks, video_likes, now, bot_settings, shelf, inflight,
                   toggled, shown, auto_delete_enabled, broadcast>>

\* time passes
Tick ==
    /\ now < MaxTime
    /\ now' = now + 1
    /\ last' = Answer("tick", 0, "")
    /\ run' = NoRun
    /\ UNCHANGED <<users, videos, bookmarks, video_likes, bot_settings, shelf, inflight, toggled, shown,
                   auto_delete_enabled, chat, broadcast>>

-----------------------------------------------------------------------------
\* nothing stored in db.bot_settings or in a "bookmarks" field, no request taken
\* apart, AUTO_DELETE_VIDEOS=false
NoExtras ==
    /\ bot_settings = {}
    /\ shelf = [user_id \in UserIds |-> <<>>]
    /\ inflight = <<>>
    /\ toggled = [writes |-> 0, blind |-> 0]
    /\ shown = <<>>
    /\ auto_delete_enabled = FALSE
    /\ chat = <<>>
    /\ broadcast = NoBroadcast

(* Browsing: one user, a catalog that grows to MaxVideos videos spread over  *)
(* two categories, some with a file reference too short to be valid          *)

NoAnswer == Answer("init", 0, "")

Init ==
    /\ users = {}
    /\ videos = <<>>
    /\ bookmarks = <<>>
    /\ video_likes = {}
    /\ now = 0
    /\ last = NoAnswer
    /\ run = NoRun
    /\ NoExtras

Next ==
    \/ start_command(1, TRUE)
    \/ \E send \in SendOutcomes : get_video_callback(1, send, TRUE)
    \/ \E direction \in {"next", "prev"} : navigate_video(1, direction, TRUE)
    \/ \E callback_data \in CallbackData \ {<<"cat", "mix">>} :
           category_selection_callback(1, callback_data, TRUE)
    \/ \E channel_id \in {"ch1", "ch2", "other"}, file_id \in FileIds :
           Len(videos) < MaxVideos /\ handle_channel_video(channel_id, file_id)

Spec == Init /\ [][Next]_vars

-----------------------------------------------------------------------------
(* Bookmarks: either one user and a catalog of CapCatalog videos, more than  *)
(* the limit, or both users and a catalog of PairCatalog videos              *)

\* a catalog of n valid videos in one category, as n channel posts leave it
Catalog(n, category) ==
    [i \in 1..n |-> [id |-> i, file_id |-> CatalogFileIds[i], category |-> category]]

InitBookmark ==
    /\ \/ users = {NewUser(1)} /\ videos = Catalog(CapCatalog, 1)
       \/ users = {NewUser(user_id) : user_id \in UserIds} /\ videos = Catalog(PairCatalog, 1)
    /\ bookmarks = <<>>
    /\ video_likes = {}
    /\ now = 0
    /\ last = NoAnswer
    /\ run = NoRun
    /\ NoExtras

\* mixed mode is browsed on the small catalog only
NextBookmark ==
    \E user_id \in UserIds :
        \/ bookmark_video_callback(user_id, "none")
        \/ navigate_video(user_id, "prev", TRUE)
        \/ \E callback_data \in {<<"cat", "mix">>, <<"cat", "1">>, <<"cat", "2">>} :
               /\ callback_data = <<"cat", "mix">> => Len(videos) <= PairCatalog
               /\ category_selection_callback(user_id, callback_data, TRUE)

SpecBookmark == InitBookmark /\ [][NextBookmark]_vars

-----------------------------------------------------------------------------
(* Premium: one user, who has watched a video, a catalog of PairCatalog       *)
(* videos, an admin and a clock                                              *)

InitPremium ==
    /\ users = {[NewUser(1) EXCEPT !.watched_videos = 1]}
    /\ videos = Catalog(PairCatalog, 1)
    /\ bookmarks = <<>>
    /\ video_likes = {}
    /\ now = 0
    /\ last = NoAnswer
    /\ run = NoRun
    /\ NoExtras

NextPremium ==
    \/ \E caller \in AdminIds \cup {1}, target_user_id \in UserIds, days \in 1..MaxDays :
           set_premium_command(caller, <<ToString(target_user_id), ToString(days)>>)
    \/ \E caller \in AdminIds \cup {1}, target_user_id \in UserIds :
           remove_premium_command(caller, target_user_id)
    \/ \E caller \in AdminIds \cup {1} : stats_command(caller)
    \/ Tick
    \/ status_callback(1)
    \/ get_video_callback(1, "ok", TRUE)
    \/ navigate_video(1, "prev", TRUE)
    \/ \E callback_data \in {<<"cat", "mix">>, <<"cat", "1">>, <<"cat", "2">>} :
           category_selection_callback(1, callback_data, TRUE)
    \/ like_video_callback(1, "none", TRUE)

SpecPremium == InitPremium /\ [][NextPremium]_vars

-----------------------------------------------------------------------------
(* Votes: both users and a catalog of PairCatalog videos                     *)

InitVote ==
    /\ users = {NewUser(user_id) : user_id \in UserIds}
    /\ videos = Catalog(PairCatalog, 1)
    /\ bookmarks = <<>>
    /\ video_likes = {}
    /\ now = 0
    /\ last = NoAnswer
    /\ run = NoRun
    /\ NoExtras

NextVote ==
    \E user_id \in UserIds :
        \/ like_video_callback(user_id, "none", TRUE)
        \/ dislike_video_callback(user_id, "none", TRUE)
        \/ navigate_video(user_id, "prev", TRUE)
        \/ \E callback_data \in {<<"cat", "1">>, <<"cat", "2">>} :
               category_selection_callback(user_id, callback_data, TRUE)

SpecVote == InitVote /\ [][NextVote]_vars

-----------------------------------------------------------------------------
(* Percentages: one video that up to MaxLikes users like and up to           *)
(* MaxDislikes users dislike; user 1 looks at it and votes                   *)

InitPct ==
    \E likes \in 0..MaxLikes, dislikes \in 0..MaxDislikes :
        /\ users = {NewUser(user_id) : user_id \in 1..(IF likes + dislikes = 0 THEN 1
                                                          ELSE likes + dislikes)}
        /\ videos = Catalog(1, 1)
        /\ bookmarks = <<>>
        /\ video_likes = {[user_id |-> user_id, video_id |-> 1, liked |-> user_id <= likes] :
                             user_id \in 1..(likes + dislikes)}
        /\ now = 0
        /\ last = NoAnswer
        /\ run = NoRun
        /\ NoExtras

NextPct ==
    \/ \E db_ok \in BOOLEAN : get_video_callback(1, "ok", db_ok)
    \/ \E db_ok \in BOOLEAN : navigate_video(1, "prev", db_ok)
    \/ like_video_callback(1, "none", TRUE)
    \/ dislike_video_callback(1, "none", TRUE)

SpecPct == InitPct /\ [][NextPct]_vars

-----------------------------------------------------------------------------
(* Properties of the bookmarks, checked under SpecBookmark *)

BookmarksOf(user_id) == {i \in 1..Len(bookmarks) : bookmarks[i].user_id = user_id}

PairRows(user_id, video_id) ==
    {i \in BookmarksOf(user_id) : bookmarks[i].video_id = video_id}

\* C1: no user ever holds more than 5 bookmarks, and every bookmark request
\* for a current video made while the user already holds 5 is answered
\* LimitExceeded and inserts nothing.
C1_BookmarkCap ==
    /\ [](\A user_id \in UserIds : Cardinality(BookmarksOf(user_id)) <= BookmarkLimit)
    /\ [][(/\ last'.op = "bookmark"
           /\ last'.video # 0
           /\ Cardinality(BookmarksOf(last'.user)) >= BookmarkLimit)
          => (last'.result = "LimitExceeded" /\ bookmarks' = bookmarks)]_vars

\* a sixth request was refused at five bookmarks
C1_Witness ==
    /\ last.op = "bookmark"
    /\ last.result = "LimitExceeded"
    /\ Cardinality(BookmarksOf(last.user)) = BookmarkLimit

\* C2 as stated: a bookmark request repeated at once for the same user and
\* video leaves exactly one bookmark for the pair and is answered
\* AlreadyBookmarked, whatever the user's bookmark count was.
C2_RepeatIsAlreadyBookmarked ==
    (last.op = "bookmark" /\ last.follows)
    => /\ last.result = "AlreadyBookmarked"
       /\ Cardinality(PairRows(last.user, last.video)) = 1

\* C2 amended: a bookmark request repeated at once for the same user and video
\* inserts nothing and leaves at most one bookmark for the pair; when the user
\* then holds fewer than 5 bookmarks it is answered AlreadyBookmarked and the
\* pair has exactly one bookmark (at 5 the answer is LimitExceeded).
C2_RepeatBelowLimit ==
    (last.op = "bookmark" /\ last.follows)
    => /\ last.result \in {"AlreadyBookmarked", "LimitExceeded"}
       /\ Cardinality(PairRows(last.user, last.video)) <= 1
       /\ Cardinality(BookmarksOf(last.user)) < BookmarkLimit
          => /\ last.result = "AlreadyBookmarked"
             /\ Cardinality(PairRows(last.user, last.video)) = 1

\* the repeated request was answered AlreadyBookmarked below the limit
C2_Witness ==
    /\ last.op = "bookmark"
    /\ last.follows
    /\ last.result = "AlreadyBookmarked"
    /\ Cardinality(BookmarksOf(last.user)) < BookmarkLimit

-----------------------------------------------------------------------------
(* Properties of browsing, checked under Spec *)

\* the stored document of a registered user
Doc(user_id) == CHOOSE d \in users : d.user_id = user_id

\* the list of the user's category
ListOf(user_id) == get_videos_by_category(Doc(user_id).current_category)

AllValid(vs) == \A i \in 1..Len(vs) : ValidFileId(vs[i].file_id)

\* get_video showed a video and "next" was then pressed as many times as the
\* list is long, with nothing else in between
FullCycle ==
    /\ run.user # 0
    /\ run.n > 0
    /\ run.n = last.total
    /\ Doc(run.user).current_category # 0

\* C4 as stated: on a stable list of a category, showing the current video
\* and then pressing "next" as many times as the list is long shows the same
\* video at the same index again.
C4_Cyclic ==
    FullCycle => (last.video = run.video /\ last.index = run.index)

\* C4 amended: the same, on a list all of whose entries have a structurally
\* valid file reference.
C4_CyclicOnValidList ==
    (FullCycle /\ AllValid(ListOf(run.user)))
    => (last.video = run.video /\ last.index = run.index)

\* a full cycle was walked on a valid list of more than one video
C4_Witness ==
    /\ FullCycle
    /\ AllValid(ListOf(run.user))
    /\ last.total > 1
    /\ last.op = "next"

\* C5 as stated: on a stable list of a category, "prev" and then "next"
\* brings the user back to the index, and the video at it, that "prev"
\* started from.
C5_PrevThenNext ==
    [][(/\ last.op = "prev"
        /\ last.result = "Video"
        /\ last'.op = "next"
        /\ last'.user = last.user)
       => (last'.video = last.from_video /\ last'.index = last.from_index)]_vars

\* C5 amended: the same, when the entry at the starting index and the entry
\* before it, going round the list, both have a structurally valid file
\* reference.
C5_PrevThenNextOnValid ==
    [][(/\ last.op = "prev"
        /\ last.result = "Video"
        /\ last'.op = "next"
        /\ last'.user = last.user
        /\ LET vs == ListOf(last.user)
           IN  /\ last.from_index < Len(vs)
               /\ ValidFileId(vs[last.from_index + 1].file_id)
               /\ ValidFileId(vs[((last.from_index - 1) % Len(vs)) + 1].file_id))
       => (last'.video = last.from_video /\ last'.index = last.from_index)]_vars

\* "next" right after "prev" came back to index 0 of a list of at least three
\* videos that has a corrupt entry elsewhere
C5_Witness ==
    /\ last.op = "next"
    /\ last.follows
    /\ last.result = "Video"
    /\ last.total > 2
    /\ last.index = 0
    /\ ~AllValid(ListOf(last.user))

-----------------------------------------------------------------------------
(* Properties of premium status, checked under SpecPremium *)

\* the stored flag is set and premium_expires lies in the past
Expired(d) == d.is_premium /\ d.premium_expires # None /\ d.premium_expires[1] < now

\* C6 as stated: a user whose stored flag is set but whose premium_expires
\* lies in the past is non-premium to every read: the keyboard of a video,
\* the status display, and the premium_users count of /stats, which leaves
\* such users out.
C6_ExpiredIsNonPremium ==
    /\ last.result \in {"Video", "Voted", "Status"}
       => \A d \in users : (d.user_id = last.user /\ Expired(d)) => ~last.is_premium
    /\ (last.op = "stats" /\ last.result = "Stats")
       => last.premium_users = Cardinality({d \in users : d.is_premium /\ ~Expired(d)})

\* C7 as stated: once premium_expires lies in the past, a button of that user
\* that writes the user's document leaves the stored is_premium false.
C7_WriteClearsExpiredFlag ==
    [][\A d \in users :
          (/\ Expired(d)
           /\ last'.user = d.user_id
           /\ last'.op \in {"next", "prev", "category", "get_video", "status"}
           /\ users' # users)
          => \A e \in users' : e.user_id = d.user_id => ~e.is_premium]_vars

\* C8: the is_premium value a handler hands to the keyboard of a video is true
\* exactly when the stored flag is set and premium_expires is null or has not
\* passed, and the keyboard offers the download exactly then.
C8_PremiumHandedOut ==
    last.result \in {"Video", "Voted"}
    => \A d \in users :
          d.user_id = last.user
          => /\ last.is_premium =
                    (d.is_premium /\ (d.premium_expires = None \/ d.premium_expires[1] >= now))
             /\ last.download = IF last.is_premium THEN "download_video"
                                ELSE "premium_required"

\* a video went out without the download to a user whose flag is still stored
\* but whose premium has run out
C8_Witness ==
    /\ last.result = "Video"
    /\ ~last.is_premium
    /\ last.download = "premium_required"
    /\ \E d \in users : d.user_id = last.user /\ Expired(d)

-----------------------------------------------------------------------------
(* Properties of the votes, checked under SpecVote and SpecPct *)

VoteRows(user_id, video_id) ==
    {r \in video_likes : r.user_id = user_id /\ r.video_id = video_id}

\* C9: a vote overwrites the user's earlier vote on the video: there is at
\* most one row per (user_id, video_id), the row of the pair just voted on
\* holds that vote, and a vote leaves the rows of all other pairs alone, so
\* every row holds the most recent vote of its pair.
C9_LastVoteWins ==
    /\ [](\A r1, r2 \in video_likes :
              (r1.user_id = r2.user_id /\ r1.video_id = r2.video_id) => r1 = r2)
    /\ [](last.result = "Voted"
          => VoteRows(last.user, last.video) =
                 {[user_id |-> last.user, video_id |-> last.video,
                   liked |-> (last.op = "like")]})
    /\ [][\A r \in video_likes :
             (last'.result # "Voted" \/ r.user_id # last'.user \/ r.video_id # last'.video)
             => r \in video_likes']_vars

\* a dislike right after a like of the same video left one row, not liked
C9_Witness ==
    /\ last.op = "dislike"
    /\ last.follows
    /\ Cardinality(VoteRows(last.user, last.video)) = 1
    /\ \A r \in VoteRows(last.user, last.video) : ~r.liked

VotesFor(video_id, liked) ==
    Cardinality({r \in video_likes : r.video_id = video_id /\ r.liked = liked})

\* C10 as stated: the percentage in a caption is 77 when the video has no
\* votes or the vote store does not answer, and otherwise
\* likes * 100 / (likes + dislikes) truncated to an integer; it lies in 0..100.
C10_TruncatedPercentage ==
    last.pct # -1
    => LET likes    == VotesFor(last.video, TRUE)
           dislikes == VotesFor(last.video, FALSE)
       IN  /\ last.pct = IF ~last.db_ok \/ likes + dislikes = 0 THEN DefaultPercentage
                         ELSE (likes * 100) \div (likes + dislikes)
           /\ last.pct \in 0..100

-----------------------------------------------------------------------------
(* Properties of resolving and advancing over corrupt entries, checked       *)
(* under Spec                                                                *)

\* the entries of a category in the order of their posts
EntriesOf(category) == SelectSeq(videos, LAMBDA v : v.category = category)

Registered(user_id) == \E d \in users : d.user_id = user_id

Corrupt(v) == v.file_id = "" \/ Len(v.file_id) < MinFileIdLen

\* C11 as stated: on a list [valid A, corrupt, valid B] with the index at the
\* corrupt entry, one press of get_video shows B and leaves the stored index
\* at 2.
C11_ResolveSkipsCorrupt ==
    (/\ last.op = "get_video"
     /\ last.from_index = 1
     /\ Registered(last.user)
     /\ LET vs == EntriesOf(Doc(last.user).current_category)
        IN  Len(vs) = 3 /\ ~Corrupt(vs[1]) /\ Corrupt(vs[2]) /\ ~Corrupt(vs[3]))
    => LET vs == EntriesOf(Doc(last.user).current_category)
       IN  /\ last.result = "Video"
           /\ last.video = vs[3].id
           /\ Doc(last.user).current_video_index = 2

\* the index the step of navigate_video lands on, before any skip
Landing == IF last.op = "next" THEN (last.from_index + 1) % last.total
           ELSE (last.from_index - 1) % last.total

\* C12: the video navigate_video shows is never corrupt, it is the entry at
\* the stored index, and that index is the first one at or after the landing
\* index, going round the list, whose entry is valid.
C12_AdvanceSkipsToValid ==
    (last.op \in {"next", "prev"} /\ last.result = "Video")
    => LET vs == EntriesOf(Doc(last.user).current_category)
       IN  /\ last.total = Len(vs)
           /\ last.index \in 0..(Len(vs) - 1)
           /\ ~Corrupt(vs[last.index + 1])
           /\ last.video = vs[last.index + 1].id
           /\ Doc(last.user).current_video_index = last.index
           /\ \E k \in 0..(Len(vs) - 1) :
                  /\ last.index = (Landing + k) % Len(vs)
                  /\ \A j \in 0..(k - 1) : Corrupt(vs[((Landing + j) % Len(vs)) + 1])

\* "next" landed on a corrupt entry, passed a second one and wrapped round to
\* the valid entry after them
C12_Witness ==
    /\ last.op = "next"
    /\ last.result = "Video"
    /\ last.total > 2
    /\ last.index = (Landing + 2) % last.total
    /\ last.index < Landing
    /\ Corrupt(EntriesOf(Doc(last.user).current_category)[Landing + 1])

\* C13 as stated: when every entry of the user's list is corrupt, get_video
\* and navigate_video both answer NoValidVideos.
C13_AllCorruptIsNoValidVideos ==
    (/\ last.op \in {"get_video", "next", "prev"}
     /\ Registered(last.user)
     /\ EntriesOf(Doc(last.user).current_category) # <<>>
     /\ \A i \in 1..Len(EntriesOf(Doc(last.user).current_category)) :
            Corrupt(EntriesOf(Doc(last.user).current_category)[i]))
    => last.result = "NoValidVideos"

-----------------------------------------------------------------------------
(* Properties of the first steps of a user and of a step of navigate_video,  *)
(* checked under Spec                                                        *)

\* the first /start of a user stores the user with category 1, index 0 and
\* no premium
StartCreatesDefaults ==
    (last'.op = "start" /\ ~Registered(last'.user))
    => users' = users \cup {[user_id |-> last'.user, is_premium |-> FALSE,
                             premium_expires |-> None, current_category |-> 1,
                             current_video_index |-> 0, watched_videos |-> 0]}

\* get_video on an empty category answers NoVideosInCategory and writes nothing
EmptyCategoryIsNoVideos ==
    (/\ last'.op = "get_video"
     /\ Registered(last'.user)
     /\ EntriesOf(Doc(last'.user).current_category) = <<>>)
    => (last'.result = "NoVideosInCategory" /\ users' = users)

\* get_video was pressed in category 1, which holds one video, and the
\* transport did not fail
OneVideoResolved ==
    /\ last.op = "get_video"
    /\ last.result \notin {"NotFound", "AutoSkip", "LoadError"}
    /\ Doc(last.user).current_category = 1
    /\ Len(EntriesOf(1)) = 1

ShowsTheOneVideo ==
    /\ last.result = "Video"
    /\ last.video = EntriesOf(1)[1].id
    /\ last.index = 0
    /\ last.total = 1

\* C14 as stated: the first /start of a user stores category 1, index 0 and
\* no premium; get_video on the empty category 1 answers NoVideosInCategory
\* and leaves the user as stored; once category 1 holds exactly one video,
\* get_video shows that video as 1 of 1.
C14_FirstSteps ==
    /\ [][StartCreatesDefaults]_vars
    /\ [][EmptyCategoryIsNoVideos]_vars
    /\ [](OneVideoResolved => ShowsTheOneVideo)

\* C14 amended: the same, for one video whose file reference is structurally
\* valid.
C14_FirstStepsValidVideo ==
    /\ [][StartCreatesDefaults]_vars
    /\ [][EmptyCategoryIsNoVideos]_vars
    /\ []((OneVideoResolved /\ ~Corrupt(EntriesOf(1)[1])) => ShowsTheOneVideo)

\* a user as /start left them is shown the only video of the catalog
C14_Witness ==
    /\ last.op = "get_video"
    /\ last.result = "Video"
    /\ last.total = 1
    /\ Len(videos) = 1
    /\ users = {[user_id |-> last.user, is_premium |-> FALSE, premium_expires |-> None,
                 current_category |-> 1, current_video_index |-> 0, watched_videos |-> 0]}

\* C16: a step of navigate_video on a list of length L first saves the index
\* (old + 1) mod L for "next" and (old - 1) mod L for "prev", which stays the
\* stored index unless the entry there is corrupt and a valid one exists, and
\* it adds exactly 1 to watched_videos on "next" and nothing on "prev".
C16_AdvanceArithmetic ==
    [][(last'.op \in {"next", "prev"} /\ last'.result \in {"Video", "NoValidVideos"})
       => LET old == Doc(last'.user)
              new == CHOOSE d \in users' : d.user_id = last'.user
              vs  == EntriesOf(old.current_category)
              to  == IF last'.op = "next" THEN (old.current_video_index + 1) % Len(vs)
                     ELSE (old.current_video_index - 1) % Len(vs)
          IN  /\ last'.landed = to
              /\ (~Corrupt(vs[to + 1]) \/ last'.result = "NoValidVideos")
                 => new.current_video_index = to
              /\ new.watched_videos =
                     old.watched_videos + (IF last'.op = "next" THEN 1 ELSE 0)
              /\ new = [old EXCEPT !.current_video_index = new.current_video_index,
                                   !.watched_videos = new.watched_videos]]_vars

\* "prev" at index 0 of a list of several videos went round to its last entry
C16_Witness ==
    /\ last.op = "prev"
    /\ last.result = "Video"
    /\ last.from_index = 0
    /\ last.total > 1
    /\ last.landed = last.total - 1
    /\ last.index = last.landed
    /\ Doc(last.user).watched_videos > 0

\* C17: navigate_video in a category without videos changes nothing: the
\* user's document and every other store stay as they were.
C17_AdvanceOnEmptyIsNoOp ==
    [][(/\ last'.op \in {"next", "prev"}
        /\ Registered(last'.user)
        /\ EntriesOf(Doc(last'.user).current_category) = <<>>)
       => /\ last'.result = "NoVideosInCategory"
          /\ UNCHANGED <<users, videos, bookmarks, video_likes>>]_vars

\* a user who had watched videos elsewhere pressed "next" or "prev" in an
\* empty category while another category held videos
C17_Witness ==
    /\ last.op \in {"next", "prev"}
    /\ last.result = "NoVideosInCategory"
    /\ videos # <<>>
    /\ Doc(last.user).watched_videos > 0

-----------------------------------------------------------------------------
(* Properties of the category switch and of the catalog, checked under Spec  *)

\* C19 as stated: after a "cat_" button the stored category is the mixed
\* sentinel 0 or one of the categories 1..4; "cat_mix" stores 0, "cat_1" to
\* "cat_4" store their number, and any other token (not a number, empty, or
\* a number outside 1..4) stores category 1.
C19_UnknownTokenIsCategoryOne ==
    (last.op = "category" /\ last.result # "NotFound")
    => LET category == Doc(last.user).current_category
       IN  /\ category \in 0..NumCategories
           /\ last.token = "mix" => category = 0
           /\ \A c \in 1..NumCategories :
                  last.token = <<"1", "2", "3", "4">>[c] => category = c
           /\ last.token \notin {"mix", "1", "2", "3", "4"} => category = 1

\* C20: no two videos of the catalog have the same file_id; a channel post
\* whose file_id is in the catalog already is reported as not added and
\* leaves the catalog as it was; and no step removes or changes a video of
\* the catalog.
C20_CatalogUnique ==
    /\ [](\A i, j \in 1..Len(videos) : videos[i].file_id = videos[j].file_id => i = j)
    /\ [][(/\ last'.op = "ingest"
           /\ last'.result # "NotMonitored"
           /\ \E i \in 1..Len(videos) : videos[i].file_id = last'.file_id)
          => (last'.result = "Duplicate" /\ videos' = videos)]_vars
    /\ [][/\ Len(videos') >= Len(videos)
          /\ \A i \in 1..Len(videos) : videos'[i] = videos[i]]_vars

\* a post of a file_id that the catalog of several videos holds was turned down
C20_Witness ==
    /\ last.op = "ingest"
    /\ last.result = "Duplicate"
    /\ Len(videos) > 1
    /\ \E i \in 1..Len(videos) : videos[i].file_id = last.file_id

-----------------------------------------------------------------------------
(* Stored state: one user and a catalog as earlier runs and the              *)
(* administration of the database left them.  No handler removes a video,    *)
(* so a stored index beyond the end of the list comes from a catalog that    *)
(* shrank in the database itself; get_video_callback provides for it.        *)

\* catalogs of up to MaxVideos videos of category 1 with distinct file ids
StoredCatalogs ==
    UNION {{[i \in 1..n |-> [id |-> i, file_id |-> f[i], category |-> 1]] :
               f \in {g \in [1..n -> FileIds] : \A i, j \in 1..n : g[i] = g[j] => i = j}} :
           n \in 0..MaxVideos}

InitStored ==
    /\ \E index \in 0..MaxIndex, category \in {0, 1} :
           users = {[NewUser(1) EXCEPT !.current_video_index = index,
                                       !.current_category = category]}
    /\ videos \in StoredCatalogs
    /\ bookmarks = <<>>
    /\ video_likes = {}
    /\ now = 0
    /\ last = NoAnswer
    /\ run = NoRun
    /\ NoExtras

NextStored ==
    \/ \E send \in SendOutcomes : get_video_callback(1, send, TRUE)
    \/ \E direction \in {"next", "prev"} : navigate_video(1, direction, TRUE)

SpecStored == InitStored /\ [][NextStored]_vars

\* get_video found the stored index at or beyond the end of a list that is
\* not empty, and the transport did not fail
ResolvedOutOfBounds ==
    /\ last.op = "get_video"
    /\ last.result \in {"Video", "SkippedInvalid"}
    /\ last.from_index >= last.total

\* index 0 is stored and the entry at position 0 was shown
ClampedToFirst ==
    /\ last.result = "Video"
    /\ last.index = 0
    /\ Doc(last.user).current_video_index = 0
    /\ Doc(last.user).current_category # 0 => last.video = EntriesOf(1)[1].id

\* C15 as stated: when the stored index is at or beyond the end of the list,
\* which is not empty, get_video stores index 0 and shows the video at
\* position 0.
C15_ClampToZero ==
    ResolvedOutOfBounds => ClampedToFirst

\* C15 amended: the same, when the entry at position 0 has a structurally
\* valid file reference (in mixed mode: when every video of the catalog has).
C15_ClampToZeroOnValid ==
    (/\ ResolvedOutOfBounds
     /\ IF Doc(last.user).current_category = 0
        THEN \A i \in 1..Len(videos) : ~Corrupt(videos[i])
        ELSE ~Corrupt(EntriesOf(1)[1]))
    => ClampedToFirst

\* an index beyond the end of a list of several videos was set back to 0
C15_Witness ==
    /\ ResolvedOutOfBounds
    /\ ClampedToFirst
    /\ last.total > 1
    /\ last.from_index > last.total

-----------------------------------------------------------------------------
(* Property of the category switch, checked under SpecPremium *)

\* C18: a "cat_" button of a registered user stores the category it names (0
\* for "cat_mix") and index 0, whether or not that category holds videos, and
\* leaves watched_videos, is_premium and premium_expires as they were.
C18_SwitchCategory ==
    [][(last'.op = "category" /\ last'.result # "NotFound")
       => LET old == Doc(last'.user)
              new == CHOOSE d \in users' : d.user_id = last'.user
          IN  /\ new.current_category =
                     (IF last'.token = "mix" THEN 0
                      ELSE IF last'.token = "1" THEN 1 ELSE 2)
              /\ new.current_video_index = 0
              /\ new.watched_videos = old.watched_videos
              /\ new.is_premium = old.is_premium
              /\ new.premium_expires = old.premium_expires
              /\ Cardinality(users') = Cardinality(users)]_vars

\* a premium user who had watched videos and stood at a later index switched
\* to a category without videos
C18_Witness ==
    /\ last.op = "category"
    /\ last.result = "NoVideosInCategory"
    /\ last.from_index > 0
    /\ Doc(last.user).current_category = 2
    /\ Doc(last.user).current_video_index = 0
    /\ Doc(last.user).watched_videos > 0
    /\ Doc(last.user).is_premium
    /\ Doc(last.user).premium_expires # None


-----------------------------------------------------------------------------
(* Ingestion: posts of every channel, with valid, short and repeated file    *)
(* references, into a catalog that grows to MaxVideos videos                 *)

NextIngest ==
    \E channel_id \in ChannelIds, file_id \in FileIds :
        Len(videos) < MaxVideos /\ handle_channel_video(channel_id, file_id)

SpecIngest == Init /\ [][NextIngest]_vars

\* C21: a post of category channel k whose file reference is new is appended
\* to the catalog with category k (k = 1..4); a post of any other channel,
\* and a post with a file reference the catalog holds, leave the catalog as
\* it was.
C21_ChannelGivesCategory ==
    [][last'.op = "ingest"
       => LET k == CASE last'.channel = "ch1" -> 1 [] last'.channel = "ch2" -> 2
                     [] last'.channel = "ch3" -> 3 [] last'.channel = "ch4" -> 4
                     [] OTHER -> 0
              held == \E i \in 1..Len(videos) : videos[i].file_id = last'.file_id
          IN  IF k = 0 \/ held
              THEN videos' = videos /\ last'.result # "Indexed"
              ELSE /\ Len(videos') = Len(videos) + 1
                   /\ SubSeq(videos', 1, Len(videos)) = videos
                   /\ videos'[Len(videos')].file_id = last'.file_id
                   /\ videos'[Len(videos')].category = k
                   /\ last'.result = "Indexed"]_vars

\* a post of the third category channel was indexed after one of another channel
C21_Witness ==
    /\ last.op = "ingest"
    /\ last.result = "Indexed"
    /\ last.channel = "ch3"
    /\ Len(videos) = 2
    /\ videos[2].category = 3
    /\ videos[1].category = 4

-----------------------------------------------------------------------------
(* Storage failures: one user, a catalog of PairCatalog videos, and calls on *)
(* one collection raising while an update is handled                         *)

InitFault ==
    /\ users = {NewUser(1)}
    /\ videos = Catalog(PairCatalog, 1)
    /\ bookmarks = <<>>
    /\ video_likes = {}
    /\ now = 0
    /\ last = NoAnswer
    /\ run = NoRun
    /\ NoExtras

NextFault ==
    \/ \E fault \in Faults : bookmark_video_callback(1, fault)
    \/ \E fault \in Faults : like_video_callback(1, fault, TRUE)
    \/ \E fault \in Faults : dislike_video_callback(1, fault, TRUE)
    \/ \E db_ok \in BOOLEAN : get_video_callback(1, "ok", db_ok)
    \/ \E db_ok \in BOOLEAN : navigate_video(1, "prev", db_ok)
    \/ \E callback_data \in {<<"cat", "1">>, <<"cat", "2">>}, db_ok \in BOOLEAN :
           category_selection_callback(1, callback_data, db_ok)

SpecFault == InitFault /\ [][NextFault]_vars

\* C22 as stated: whatever a storage call raises while a video is fetched, the
\* user navigates, switches the category, bookmarks or votes is caught in the
\* handler: no update ends with an exception that leaves its handler.
C22_StorageFailuresCaught ==
    last.op \in {"get_video", "next", "prev", "category", "bookmark", "like", "dislike"}
        => last.result # "Unhandled"

-----------------------------------------------------------------------------
(* Administration: one registered user, an admin, a clock, the settings     *)
(* store, and commands of both with well-formed and malformed arguments      *)

\* context.args of /setpremium
PremiumArgs ==
    {<<>>, <<"1">>, <<"1", "1">>, <<"1", "2">>, <<"1", "0">>, <<"1", "-1">>,
     <<"1", "x">>, <<"x", "1">>, <<"2", "1">>}

InitAdmin ==
    /\ users = {NewUser(1)}
    /\ videos = <<>>
    /\ bookmarks = <<>>
    /\ video_likes = {}
    /\ now = 0
    /\ last = NoAnswer
    /\ run = NoRun
    /\ NoExtras

NextAdmin ==
    \/ \E caller \in AdminIds \cup {1}, args \in PremiumArgs :
           set_premium_command(caller, args)
    \/ \E caller \in AdminIds \cup {1}, target_user_id \in UserIds :
           remove_premium_command(caller, target_user_id)
    \/ \E caller \in AdminIds \cup {1} : stats_command(caller)
    \/ \E caller \in AdminIds \cup {1}, args \in {<<>>, <<"hello">>}, announced \in BOOLEAN :
           broadcast_command(caller, args, TRUE, announced)
    \/ \E delivered \in BOOLEAN : broadcast_send(delivered)
    \/ \E reported \in BOOLEAN : broadcast_report(reported)
    \/ \E caller \in AdminIds \cup {1}, db_ok \in BOOLEAN, write_ok \in BOOLEAN :
           toggle_forward_protection(caller, db_ok, write_ok)
    \/ \E caller \in AdminIds \cup {1}, db_ok \in BOOLEAN : settings_command(caller, db_ok)
    \/ Tick

SpecAdmin == InitAdmin /\ [][NextAdmin]_vars

\* the arguments a grant is to refuse: fewer than two, a user id or a day
\* count that is no integer, a day count that is not positive
BadPremiumArgs(args) ==
    \/ Len(args) < 2
    \/ args[1] \notin {"1", "2"}
    \/ args[2] \notin {"1", "2"}

\* C23 as stated: a grant with too few arguments, with a user id or a day
\* count that is no integer, or with a day count of zero or less is refused
\* and changes no user document.
C23_BadGrantRefused ==
    [][(last'.op = "setpremium" /\ last'.user \in AdminIds /\ BadPremiumArgs(last'.args))
       => /\ last'.result \in {"Usage", "InvalidArguments"}
          /\ users' = users]_vars

\* C24: a /setpremium, /removepremium, /stats, /broadcast or /toggleforward
\* of a caller who is no admin is answered with the permission message only:
\* no user document and no setting changes and no broadcast message is sent.
C24_AdminOnly ==
    [][(/\ last'.op \in {"setpremium", "removepremium", "stats", "broadcast", "toggleforward"}
        /\ last'.user \in UserIds)
       => /\ last'.result = "PermissionDenied"
          /\ last'.sends = 0
          /\ UNCHANGED <<users, bot_settings, videos, bookmarks, video_likes, shelf>>]_vars

\* a user who holds premium was refused a broadcast while a setting is stored
C24_Witness ==
    /\ last.op = "broadcast"
    /\ last.user = 1
    /\ last.result = "PermissionDenied"
    /\ last.args = <<"hello">>
    /\ bot_settings # {}
    /\ \E d \in users : d.is_premium

\* the documents of db.bot_settings for forward protection
ForwardRows == {d \in bot_settings : d.setting_name = "forward_protection_enabled"}

\* /settings shows, for each name, the stored value, and the caller's default
\* when there is no document for the name or the read raised
GetAnswersStoredOrDefault ==
    (last.op = "settings" /\ last.result = "Settings")
        => /\ last.settings[1] = (IF ~last.db_ok \/ ForwardRows = {} THEN FALSE
                                  ELSE (CHOOSE d \in ForwardRows : TRUE).setting_value)
           /\ last.settings[2] = TRUE
           /\ last.settings[3] = 10

\* the value a /toggleforward announced is the one stored, in one document
ToggleStoresAnnounced ==
    (last.op = "toggleforward" /\ last.result \in {"Enabled", "Disabled"})
        => ForwardRows = {[setting_name |-> "forward_protection_enabled",
                           setting_value |-> (last.result = "Enabled")]}

\* after k writes of /toggleforward the stored value is true iff k is odd, and
\* nothing is stored before the first
ParityOfToggles ==
    IF toggled.writes = 0 THEN bot_settings = {}
    ELSE ForwardRows = {[setting_name |-> "forward_protection_enabled",
                         setting_value |-> (toggled.writes % 2 = 1)]}

-----------------------------------------------------------------------------
(* src/start.py: the bookmark lists kept in the user documents.  User 1 has  *)
(* a document and bookmarks up to six files; user 2 has none and one file    *)

InitShelf ==
    /\ users = {NewUser(1)}
    /\ videos = <<>>
    /\ bookmarks = <<>>
    /\ video_likes = {}
    /\ now = 0
    /\ last = NoAnswer
    /\ run = NoRun
    /\ NoExtras

NextShelf ==
    \/ \E i \in 1..CapCatalog : toggle_bookmark_callback(1, CatalogFileIds[i], TRUE)
    \/ toggle_bookmark_callback(2, CatalogFileIds[1], TRUE)
    \/ \E user_id \in UserIds : my_bookmarks(user_id)
    \/ \E user_id \in UserIds, args \in {<<>>, <<"x">>, <<"0">>, <<"1">>, <<"2">>, <<"6">>} :
           delete_bookmark_cmd(user_id, args)

SpecShelf == InitShelf /\ [][NextShelf]_vars

\* the update handled now is the removal request handled just before
SameRemovalAgain ==
    /\ last.op = "deletebookmark"
    /\ last'.op = "deletebookmark"
    /\ last'.user = last.user
    /\ last'.args = last.args

\* C25 as stated: a removal request repeated leaves the bookmarks as the first
\* one left them, and a request for a bookmark that does not exist is
\* answered NotFound and writes nothing.
C25_RemoveIdempotent ==
    [][/\ SameRemovalAgain => shelf' = shelf
       /\ last'.op = "deletebookmark" /\ last'.result = "NotFound"
              => UNCHANGED <<shelf, users>>]_vars

-----------------------------------------------------------------------------
(* Listing: both users, a catalog of PairCatalog videos and a clock; both    *)
(* bookmark and list, user 1 also moves to the other video                   *)

NextList ==
    \/ \E user_id \in UserIds : bookmark_video_callback(user_id, "none")
    \/ navigate_video(1, "prev", TRUE)
    \/ \E user_id \in UserIds, delivered \in {0, PairCatalog} :
           mybookmarks_command(user_id, delivered)
    \/ Tick

SpecList == InitVote /\ [][NextList]_vars

\* where a listed document stands in db.bookmarks
RowOf(b) == CHOOSE i \in 1..Len(bookmarks) : bookmarks[i] = b

\* C27: /mybookmarks finds exactly the bookmarks of the user who asked, each
\* once and none of another user, the newest first.
C27_ListOwnNewestFirst ==
    last.op = "listbookmarks"
        => LET listed == last.listed
           IN  /\ \A k \in 1..Len(listed) : listed[k].user_id = last.user
               /\ {listed[k] : k \in 1..Len(listed)}
                      = {bookmarks[i] : i \in BookmarksOf(last.user)}
               /\ Len(listed) = Cardinality(BookmarksOf(last.user))
               /\ \A k, l \in 1..Len(listed) :
                      k < l => /\ listed[k].created_at >= listed[l].created_at
                               /\ RowOf(listed[k]) > RowOf(listed[l])
               /\ (listed = <<>>) = (last.result = "NoBookmarks")

\* a user listed two bookmarks of different days while the other user holds one
C27_Witness ==
    /\ last.op = "listbookmarks"
    /\ Len(last.listed) = 2
    /\ last.listed[1].created_at > last.listed[2].created_at
    /\ \E i \in 1..Len(bookmarks) : bookmarks[i].user_id # last.user

-----------------------------------------------------------------------------
(* Handlers taken storage call by storage call.  A single Application       *)
(* handles one update to its end before the next (see the head of the       *)
(* module), and no handler awaits between its read and its write, so the    *)
(* steps below interleave only where more than one worker or process        *)
(* serves the same database; nothing in the code (no lock, no transaction, *)
(* no conditional update) orders the calls of two such requests.           *)

\* a request that has been taken up: the handler (op), the user whose
\* document it reads, the call it makes next (pc), the copies it holds of
\* the document (doc, empty until read) and of the list (vs), the number of
\* writes db.users had taken when it read (seen), and the number of its own
\* write (wrote, 0 until it writes)
Request(op, user_id) ==
    [op |-> op, user |-> user_id, pc |-> "start", doc |-> <<>>, vs |-> <<>>,
     seen |-> 0, wrote |-> 0, result |-> ""]

\* the writes db.users has taken from the requests in flight
Writes == Cardinality({p \in DOMAIN inflight : inflight[p].wrote > 0})

\* the call a handler makes after get_user_data has answered
AfterRead(op, user_data) ==
    CASE op \in {"next", "bookmark", "get_video"} -> "list"
      [] op = "start" -> "done"
      [] op = "status" ->
            IF /\ user_data.is_premium
               /\ user_data.premium_expires # None
               /\ user_data.premium_expires[1] < now
            THEN "save" ELSE "done"
      [] OTHER -> "save"

\* the call a handler makes after the list has answered, and its answer
\* when it makes none
AfterList(op, user_data, vs) ==
    IF vs = <<>> THEN [pc |-> "done", result |-> "NoVideosInCategory"]
    ELSE CASE op = "next" -> [pc |-> "save", result |-> ""]
           [] op = "get_video" ->
                 IF user_data.current_video_index >= Len(vs)
                 THEN [pc |-> "save", result |-> ""]
                 ELSE [pc |-> "done", result |-> "Video"]
           [] OTHER ->
                 IF user_data.current_video_index >= Len(vs)
                 THEN [pc |-> "done", result |-> "InvalidIndex"]
                 ELSE [pc |-> "count", result |-> ""]

\* "next" applied to the stored document instead of the copy read
Written_to_stored(r) ==
    LET d == r.doc[1]
        stored == CHOOSE u \in users : u.user_id = r.user
    IN  CASE r.op = "start" -> NewUser(r.user)
          [] r.op = "next" ->
                [stored EXCEPT !.current_video_index =
                                   advance_index(stored.current_video_index, "next", Len(r.vs)),
                               !.watched_videos = stored.watched_videos + 1]
          [] r.op = "get_video" ->
                [d EXCEPT !.current_video_index =
                              clamp_index(d.current_video_index, Len(r.vs))]
          [] r.op = "category" -> switch_category(d, 2)
          [] r.op = "status" -> [d EXCEPT !.is_premium = FALSE]
          [] r.op = "setpremium" ->
                [d EXCEPT !.is_premium = TRUE, !.premium_expires = expires_date(MaxDays)]
          [] OTHER -> [d EXCEPT !.is_premium = FALSE, !.premium_expires = None]

\* the document a handler passes to save_user_data: the copy it read, with
\* the fields the handler assigned
Written(r) ==
    LET d == r.doc[1]
    IN  CASE r.op = "start" -> NewUser(r.user)
          [] r.op = "next" ->
                [d EXCEPT !.current_video_index =
                              advance_index(d.current_video_index, "next", Len(r.vs)),
                          !.watched_videos = d.watched_videos + 1]
          [] r.op = "get_video" ->
                [d EXCEPT !.current_video_index =
                              clamp_index(d.current_video_index, Len(r.vs))]
          [] r.op = "category" -> switch_category(d, 2)
          [] r.op = "status" -> [d EXCEPT !.is_premium = FALSE]
          [] r.op = "setpremium" ->
                [d EXCEPT !.is_premium = TRUE, !.premium_expires = expires_date(MaxDays)]
          [] OTHER -> [d EXCEPT !.is_premium = FALSE, !.premium_expires = None]

\* get_user_data(user_id), the first call of every handler
race_get_user_data(p) ==
    LET r == inflight[p]
        found == get_user_data(r.user)
    IN  /\ p \in DOMAIN inflight
        /\ r.pc = "start"
        /\ inflight' = [inflight EXCEPT ![p] =
               IF found = {}
               THEN IF r.op = "start"
                    THEN [r EXCEPT !.seen = Writes, !.pc = "save"]
                    ELSE [r EXCEPT !.pc = "done", !.result = "NotFound"]
               ELSE LET d == CHOOSE u \in found : TRUE
                    IN  [r EXCEPT !.doc = <<d>>, !.seen = Writes,
                                  !.pc = AfterRead(r.op, d)]]
        /\ UNCHANGED <<users, videos, bookmarks, video_likes, now, last, run,
                       bot_settings, shelf, toggled, shown, auto_delete_enabled, chat,
                   broadcast>>

\* get_mixed_videos() or get_videos_by_category(category)
race_get_videos(p) ==
    LET r == inflight[p]
    IN  /\ p \in DOMAIN inflight
        /\ r.pc = "list"
        /\ \E vs \in VideoLists(r.doc[1].current_category) :
               LET after == AfterList(r.op, r.doc[1], vs)
               IN  inflight' = [inflight EXCEPT ![p] =
                       [r EXCEPT !.vs = vs, !.pc = after.pc, !.result = after.result]]
        /\ UNCHANGED <<users, videos, bookmarks, video_likes, now, last, run,
                       bot_settings, shelf, toggled, shown, auto_delete_enabled, chat,
                   broadcast>>

\* bookmarks_collection.count_documents({"user_id": user_id})
race_count_documents(p) ==
    LET r == inflight[p]
    IN  /\ p \in DOMAIN inflight
        /\ r.pc = "count"
        /\ inflight' = [inflight EXCEPT ![p] =
               IF bookmark_limit_reached(r.user)
               THEN [r EXCEPT !.pc = "done", !.result = "LimitExceeded"]
               ELSE [r EXCEPT !.pc = "find"]]
        /\ UNCHANGED <<users, videos, bookmarks, video_likes, now, last, run,
                       bot_settings, shelf, toggled, shown, auto_delete_enabled, chat,
                   broadcast>>

\* bookmarks_collection.find_one({"user_id": ..., "video_id": ...})
race_find_one(p) ==
    LET r == inflight[p]
        video == r.vs[r.doc[1].current_video_index + 1]
    IN  /\ p \in DOMAIN inflight
        /\ r.pc = "find"
        /\ inflight' = [inflight EXCEPT ![p] =
               IF bookmark_exists(r.user, video.id)
               THEN [r EXCEPT !.pc = "done", !.result = "AlreadyBookmarked"]
               ELSE [r EXCEPT !.pc = "insert"]]
        /\ UNCHANGED <<users, videos, bookmarks, video_likes, now, last, run,
                       bot_settings, shelf, toggled, shown, auto_delete_enabled, chat,
                   broadcast>>

\* bookmarks_collection.insert_one(bookmark_data)
race_insert_one(p) ==
    LET r == inflight[p]
        video == r.vs[r.doc[1].current_video_index + 1]
        ins == insert_bookmark(r.user, video)
    IN  /\ p \in DOMAIN inflight
        /\ r.pc = "insert"
        /\ bookmarks' = ins.bookmarks
        /\ inflight' = [inflight EXCEPT ![p] =
               [r EXCEPT !.pc = "done",
                         !.result = IF ins.inserted THEN "Bookmarked" ELSE "Error"]]
        /\ UNCHANGED <<users, videos, video_likes, now, last, run,
                       bot_settings, shelf, toggled, shown, auto_delete_enabled, chat,
                   broadcast>>

\* save_user_data(user_id, user_data), the last storage call of a handler
\* that writes; the catalogs here hold valid entries only, so navigate_video
\* does not enter its skip loop
race_save_user_data(p) ==
    LET r == inflight[p]
    IN  /\ p \in DOMAIN inflight
        /\ r.pc = "save"
        /\ users' = save_user_data(r.user, Written(r))
        /\ inflight' = [inflight EXCEPT ![p] =
               [r EXCEPT !.pc = "done", !.wrote = Writes + 1, !.result = "Saved"]]
        /\ UNCHANGED <<videos, bookmarks, video_likes, now, last, run,
                       bot_settings, shelf, toggled, shown, auto_delete_enabled, chat,
                   broadcast>>

\* the bookmarks of videos 1..n of one user, as n presses of the button
\* leave them
Bookmarked(user_id, n) ==
    [i \in 1..n |-> [user_id |-> user_id, video_id |-> i, file_id |-> CatalogFileIds[i],
                     category |-> 1, created_at |-> 0]]

\* the states of premium a user document can be in at time 1
PremiumStates ==
    {[is_premium |-> FALSE, premium_expires |-> None],
     [is_premium |-> TRUE, premium_expires |-> <<0>>],
     [is_premium |-> TRUE, premium_expires |-> <<MaxTime>>]}

\* three scenarios: presses of "next" by one user; presses of the bookmark
\* button and of "next" by a user one bookmark short of the limit; an admin
\* command on a user who is pressing a button
InitRace ==
    /\ \/ /\ \E index \in 0..(MaxVideos - 1) :
                 users = {[NewUser(1) EXCEPT !.current_video_index = index]}
          /\ videos = Catalog(MaxVideos, 1)
          /\ bookmarks = <<>>
          /\ now = 0
          /\ inflight = <<Request("next", 1), Request("next", 1), Request("next", 1)>>
       \/ /\ users = {[NewUser(1) EXCEPT !.current_video_index = BookmarkLimit - 1]}
          /\ videos = Catalog(CapCatalog, 1)
          /\ bookmarks = Bookmarked(1, BookmarkLimit - 1)
          /\ now = 0
          /\ inflight = <<Request("bookmark", 1), Request("next", 1), Request("bookmark", 1)>>
       \/ /\ \E premium \in PremiumStates, index \in {0, MaxVideos} :
                 users = {[NewUser(1) EXCEPT !.is_premium = premium.is_premium,
                                             !.premium_expires = premium.premium_expires,
                                             !.current_video_index = index]}
          /\ videos = Catalog(MaxVideos, 1)
          /\ bookmarks = <<>>
          /\ now = 1
          /\ \E admin \in {"setpremium", "removepremium"},
                op \in {"next", "category", "get_video", "status"} :
                 inflight = <<Request(admin, 1), Request(op, 1)>>
    /\ video_likes = {}
    /\ last = NoAnswer
    /\ run = NoRun
    /\ bot_settings = {}
    /\ shelf = [user_id \in UserIds |-> <<>>]
    /\ toggled = [writes |-> 0, blind |-> 0]
    /\ shown = <<>>
    /\ auto_delete_enabled = FALSE
    /\ chat = <<>>
    /\ broadcast = NoBroadcast

NextRace ==
    \E p \in 1..MaxRequests :
        \/ race_get_user_data(p)
        \/ race_get_videos(p)
        \/ race_count_documents(p)
        \/ race_find_one(p)
        \/ race_insert_one(p)
        \/ race_save_user_data(p)

SpecRace == InitRace /\ [][NextRace]_vars

\* p and q are two presses of "next" by one user that read the same document
\* and the same list before either wrote
BothReadFirst(p, q) ==
    /\ p # q
    /\ inflight[p].op = "next" /\ inflight[q].op = "next"
    /\ inflight[p].user = inflight[q].user
    /\ inflight[p].wrote > 0 /\ inflight[q].wrote > 0
    /\ inflight[p].seen < inflight[q].wrote
    /\ inflight[q].seen < inflight[p].wrote
    /\ inflight[p].doc = inflight[q].doc
    /\ inflight[p].vs = inflight[q].vs

\* the later write of p and q is the last write db.users has taken
LastWriters(p, q) ==
    \/ inflight[p].wrote = Writes
    \/ inflight[q].wrote = Writes

\* C28: two presses of "next" by one user that both read index i before
\* either wrote leave current_video_index = (i+1) mod L and watched_videos one
\* above what they read, once both have written: one step is lost
C28_LostUpdate ==
    \A p, q \in DOMAIN inflight :
        BothReadFirst(p, q) /\ LastWriters(p, q) =>
            LET d == inflight[p].doc[1]
                L == Len(inflight[p].vs)
            IN  \A u \in get_user_data(inflight[p].user) :
                    /\ u.current_video_index = (d.current_video_index + 1) % L
                    /\ u.watched_videos = d.watched_videos + 1

\* both presses read before either wrote, and both have written
C28_Witness ==
    \E p, q \in DOMAIN inflight :
        /\ BothReadFirst(p, q) /\ LastWriters(p, q)
        /\ Len(inflight[p].vs) = MaxVideos
        /\ get_user_data(inflight[p].user) # {}

\* C29 as stated: whatever the order of the count, the lookup and the insert
\* of several presses of the bookmark button by one user, the user never
\* holds more than BookmarkLimit bookmarks
C29_CapUnderRace ==
    \A user_id \in UserIds :
        (\E p \in DOMAIN inflight :
             inflight[p].op = "bookmark" /\ inflight[p].user = user_id)
        => Cardinality(BookmarksOf(user_id)) <= BookmarkLimit

\* the admin command a has written while the button press u of the same user
\* held a copy read before that write, and u has written after it
WroteInBetween(a, u) ==
    /\ inflight[a].op \in {"setpremium", "removepremium"}
    /\ inflight[u].op \in {"next", "category", "get_video", "status"}
    /\ inflight[u].user = inflight[a].user
    /\ inflight[a].wrote > 0
    /\ inflight[u].doc # <<>>
    /\ inflight[u].seen < inflight[a].wrote
    /\ inflight[u].wrote > inflight[a].wrote

\* C30 as stated: when /setpremium or /removepremium writes while a press of
\* "next", a category switch, a clamp of the index or a status request of the
\* target is between its read and its write, the stored is_premium and
\* premium_expires are in the end those the admin command wrote
C30_GrantSurvives ==
    \A a, u \in DOMAIN inflight :
        WroteInBetween(a, u) =>
            \A d \in get_user_data(inflight[a].user) :
                /\ d.is_premium = Written(inflight[a]).is_premium
                /\ d.premium_expires = Written(inflight[a]).premium_expires

-----------------------------------------------------------------------------
(* Grant and revocation of premium, under SpecPremium                        *)

\* the stored flag is set and premium_expires has not passed
Active(d) == d.is_premium /\ d.premium_expires # None /\ now <= d.premium_expires[1]

\* every read of a user whose grant has not run out finds the user premium:
\* the keyboard of a video, the status display, the count of /stats
ActiveOnEveryRead ==
    /\ last.result \in {"Video", "Voted", "Status"}
       => \A d \in users : (d.user_id = last.user /\ Active(d)) => last.is_premium
    /\ last.result \in {"Video", "Voted"}
       => \A d \in users : (d.user_id = last.user /\ Active(d))
                               => last.download = "download_video"
    /\ (last.op = "stats" /\ last.result = "Stats")
       => last.premium_users >= Cardinality({d \in users : Active(d)})

\* what an admin's /setpremium <target> <days> with days > 0 and
\* /removepremium <target> do to db.users and what they answer
GrantRevokeStep ==
    \A target_user_id \in UserIds :
        /\ \A days \in 1..MaxDays :
               (/\ last'.op = "setpremium"
                /\ last'.user \in AdminIds
                /\ last'.args = <<ToString(target_user_id), ToString(days)>>)
               => IF get_user_data(target_user_id) = {}
                  THEN last'.result = "NotFound" /\ users' = users
                  ELSE /\ last'.result = "PremiumSet"
                       /\ \E d \in users :
                              /\ d.user_id = target_user_id
                              /\ users' = (users \ {d}) \cup
                                     {[d EXCEPT !.is_premium = TRUE,
                                                !.premium_expires = <<now + days>>]}
        /\ (/\ last'.op = "removepremium"
            /\ last'.user \in AdminIds
            /\ last'.args = <<ToString(target_user_id)>>)
           => IF get_user_data(target_user_id) = {}
              THEN last'.result = "NotFound" /\ users' = users
              ELSE /\ last'.result = "PremiumRemoved"
                   /\ \E d \in users :
                          /\ d.user_id = target_user_id
                          /\ users' = (users \ {d}) \cup
                                 {[d EXCEPT !.is_premium = FALSE,
                                            !.premium_expires = None]}

\* C31: a grant with a positive day count sets is_premium and premium_expires
\* = now + days on an existing user, who is then premium to every read until
\* that instant; a revocation sets is_premium false and premium_expires null;
\* both answer NotFound and store nothing for a user without a document, and
\* change no other field and no other document
C31_GrantRevoke == []ActiveOnEveryRead /\ [][GrantRevokeStep]_vars

\* the status display finds the user premium at the very instant a grant of
\* MaxDays days runs out, the rest of the document as it was
C31_Witness ==
    /\ last.op = "status" /\ last.result = "Status" /\ last.is_premium
    /\ now = MaxDays
    /\ [NewUser(1) EXCEPT !.watched_videos = 1, !.is_premium = TRUE,
                          !.premium_expires = <<MaxDays>>] \in users

-----------------------------------------------------------------------------
(* Browsing with the mixed mode: the handlers of Spec and the mix button     *)

NextMixed ==
    \/ start_command(1, TRUE)
    \/ \E send \in {"ok", "file_error"} : get_video_callback(1, send, TRUE)
    \/ \E direction \in {"next", "prev"} : navigate_video(1, direction, TRUE)
    \/ \E callback_data \in {<<"cat", "mix">>, <<"cat", "1">>, <<"cat", "2">>} :
           category_selection_callback(1, callback_data, TRUE)
    \/ \E channel_id \in {"ch1", "ch2"}, file_id \in FileIds \ {""} :
           Len(videos) < MaxVideos /\ handle_channel_video(channel_id, file_id)

SpecMixed == Init /\ [][NextMixed]_vars

\* C32: with a catalog that only grows and one update handled at a time, the
\* stored current_video_index of every user in a category other than the mix
\* is at least 0 and below the length of that category's list, whenever the
\* list is not empty
C32_IndexInBounds ==
    \A d \in users :
        LET vs == get_videos_by_category(d.current_category)
        IN  (d.current_category # 0 /\ vs # <<>>)
            => d.current_video_index >= 0 /\ d.current_video_index < Len(vs)

\* a step back from the first entry of category 2 has left the user at the
\* last one
C32_Witness ==
    /\ last.op = "prev" /\ last.result = "Video"
    /\ \E d \in users :
          /\ d.current_category = 2
          /\ Len(get_videos_by_category(2)) = 2
          /\ d.current_video_index = 1

-----------------------------------------------------------------------------
(* The video a button acts on: one user, followed by the observer, in a     *)
(* catalog of two categories that holds an entry with a file reference too  *)
(* short to be valid, and grows by one post                                  *)

\* two videos of category 1 and one of category 2; the too-short file id is
\* that of the entry at place bad
ShownCatalog(bad) ==
    [i \in 1..MaxVideos |->
        [id |-> i,
         file_id |-> IF i = bad THEN "AgADshort" ELSE CatalogFileIds[i],
         category |-> IF i = MaxVideos THEN 2 ELSE 1]]

InitShown ==
    /\ users = {NewUser(1)}
    /\ \E bad \in 2..MaxVideos : videos = ShownCatalog(bad)
    /\ bookmarks = <<>>
    /\ video_likes = {}
    /\ now = 0
    /\ last = NoAnswer
    /\ run = NoRun
    /\ bot_settings = {}
    /\ shelf = [user_id \in UserIds |-> <<>>]
    /\ inflight = <<>>
    /\ toggled = [writes |-> 0, blind |-> 0]
    /\ shown = [user_id \in {1} |-> 0]
    /\ auto_delete_enabled = FALSE
    /\ chat = <<>>
    /\ broadcast = NoBroadcast

\* the stores of votes and bookmarks are kept to MaxRecorded documents
NextShown ==
    \/ \E send \in {"ok", "file_error"} : get_video_callback(1, send, TRUE)
    \/ \E direction \in {"next", "prev"} : navigate_video(1, direction, TRUE)
    \/ \E callback_data \in {<<"cat", "1">>, <<"cat", "2">>} :
           category_selection_callback(1, callback_data, TRUE)
    \/ Cardinality(video_likes) < MaxRecorded /\ like_video_callback(1, "none", TRUE)
    \/ Cardinality(video_likes) < MaxRecorded /\ dislike_video_callback(1, "none", TRUE)
    \/ Len(bookmarks) < MaxRecorded /\ bookmark_video_callback(1, "none")
    \/ Len(videos) <= MaxVideos /\ handle_channel_video("ch1", CatalogFileIds[MaxVideos + 1])

SpecShown == InitShown /\ [][NextShown]_vars

\* C33 as stated: the video a like, a dislike or a bookmark records is the
\* video most recently sent to that user, whatever get_video, "next", "prev"
\* and category buttons were pressed and whatever was posted in between
C33_ActsOnShown ==
    (/\ last.op \in {"like", "dislike", "bookmark"}
     /\ last.result \in {"Voted", "Bookmarked"}
     /\ last.user \in DOMAIN shown
     /\ shown[last.user] # 0)
    => last.video = shown[last.user]

-----------------------------------------------------------------------------
(* The like, dislike and bookmark buttons on a stored index that the list    *)
(* may not hold: as in InitStored, the catalog may have shrunk in the        *)
(* database itself                                                           *)

InitStale ==
    /\ \E index \in 0..MaxIndex, category \in {0, 1} :
           users = {[NewUser(1) EXCEPT !.current_video_index = index,
                                       !.current_category = category]}
    /\ \E n \in 0..MaxVideos : videos = Catalog(n, 1)
    /\ bookmarks = <<>>
    /\ video_likes = {}
    /\ now = 0
    /\ last = NoAnswer
    /\ run = NoRun
    /\ NoExtras

NextStale ==
    \/ like_video_callback(1, "none", TRUE)
    \/ dislike_video_callback(1, "none", TRUE)
    \/ bookmark_video_callback(1, "none")
    \/ get_video_callback(1, "ok", TRUE)

SpecStale == InitStale /\ [][NextStale]_vars

\* the list of the user's category is empty, or the stored index lies at or
\* beyond its end
NothingAtIndex(user_id) ==
    \A d \in get_user_data(user_id) :
        \A vs \in VideoLists(d.current_category) :
            vs = <<>> \/ d.current_video_index >= Len(vs)

\* C34: a like, a dislike or a bookmark pressed while the list is empty or
\* the stored index is out of its bounds records nothing: db.video_likes,
\* db.bookmarks and db.users stay as they were
C34_NothingRecorded ==
    [][(/\ last'.op \in {"like", "dislike", "bookmark"}
        /\ get_user_data(last'.user) # {}
        /\ NothingAtIndex(last'.user))
       => /\ last'.result \in {"NoVideosInCategory", "InvalidIndex"}
          /\ UNCHANGED <<video_likes, bookmarks, users>>]_vars

\* a button was refused for an index beyond the end of a list that holds
\* videos
C34_Witness ==
    /\ last.op \in {"like", "dislike", "bookmark"}
    /\ last.result = "InvalidIndex"
    /\ last.user = 1
    /\ videos # <<>>
    /\ video_likes = {} /\ bookmarks = <<>>

-----------------------------------------------------------------------------
(* Creation of user documents: user 1 is known and has chosen category 2;    *)
(* user 2 presses buttons and is the target of admin commands while two      *)
(* /start of that user are taken storage call by storage call               *)

InitStart ==
    /\ users = {[NewUser(1) EXCEPT !.current_category = 2]}
    /\ videos = Catalog(PairCatalog, 2)
    /\ bookmarks = <<>>
    /\ video_likes = {}
    /\ now = 0
    /\ last = NoAnswer
    /\ run = NoRun
    /\ bot_settings = {}
    /\ shelf = [user_id \in UserIds |-> <<>>]
    /\ inflight = <<Request("start", 2), Request("start", 2)>>
    /\ toggled = [writes |-> 0, blind |-> 0]
    /\ shown = <<>>
    /\ auto_delete_enabled = FALSE
    /\ chat = <<>>
    /\ broadcast = NoBroadcast

NextStart ==
    \/ \E read_ok \in BOOLEAN : start_command(1, read_ok)
    \/ \E user_id \in {2} :
           \/ navigate_video(user_id, "next", TRUE)
           \/ category_selection_callback(user_id, <<"cat", "2">>, TRUE)
           \/ get_video_callback(user_id, "ok", TRUE)
           \/ status_callback(user_id)
           \/ Cardinality(video_likes) < MaxRecorded /\ like_video_callback(user_id, "none", TRUE)
           \/ Cardinality(video_likes) < MaxRecorded /\ dislike_video_callback(user_id, "none", TRUE)
           \/ Len(bookmarks) < MaxRecorded /\ bookmark_video_callback(user_id, "none")
           \/ set_premium_command(9, <<ToString(user_id), "1">>)
           \/ remove_premium_command(9, user_id)
    \/ \E p \in 1..MaxRequests :
           \/ race_get_user_data(p)
           \/ race_save_user_data(p)

SpecStart == InitStart /\ [][NextStart]_vars

\* the user ids that have a document
Known == {d.user_id : d \in users}

\* a step of a handler taken whole: the requests taken call by call rest
Whole == inflight' = inflight

\* C35 as stated: a button or an admin command for a user id without a
\* document creates none; /start of a user who has a document leaves the
\* document as it is; and db.users never holds two documents of one user id,
\* also when two /start of one new user interleave
C35_OnlyStartCreates ==
    /\ [](\A d, e \in users : d.user_id = e.user_id => d = e)
    /\ [][/\ (/\ Whole
              /\ last'.op \in {"next", "prev", "category", "get_video", "status", "like",
                               "dislike", "bookmark", "setpremium", "removepremium"})
             => Known' = Known
          /\ (Whole /\ last'.op = "start" /\ last'.user \in Known)
             => users' = users]_vars

-----------------------------------------------------------------------------
(* The mix: one user who has pressed the mix button, a catalog that grows    *)
(* from nothing to MaxVideos videos, and samples of sizes below and at the   *)
(* catalog size                                                              *)

InitSample ==
    /\ users = {[NewUser(1) EXCEPT !.current_category = 0]}
    /\ videos = <<>>
    /\ bookmarks = <<>>
    /\ video_likes = {}
    /\ now = 0
    /\ last = NoAnswer
    /\ run = NoRun
    /\ NoExtras

NextSample ==
    \/ \E send \in {"ok", "error"} : get_video_callback(1, send, TRUE)
    \/ \E direction \in {"next", "prev"} : navigate_video(1, direction, TRUE)
    \/ \E size \in 1..MaxVideos : draw_sample(size)
    \/ \E channel_id \in {"ch1", "ch2"}, file_id \in ValidFileIds :
           Len(videos) < MaxVideos /\ handle_channel_video(channel_id, file_id)

SpecSample == InitSample /\ [][NextSample]_vars

\* the list holds no video twice and only videos of the catalog
DrawnFromCatalog(vs) ==
    /\ \A i, j \in 1..Len(vs) : vs[i] = vs[j] => i = j
    /\ \A i \in 1..Len(vs) : \E k \in 1..Len(videos) : videos[k] = vs[i]

-----------------------------------------------------------------------------
(* The deletion tasks of the video messages: the bot runs with              *)
(* AUTO_DELETE_VIDEOS set or not, one user browses a catalog of PairCatalog  *)
(* videos and one bookmark while the clock runs and the tasks wake up        *)

InitDelete ==
    /\ users = {NewUser(1)}
    /\ videos = Catalog(PairCatalog, 1)
    /\ bookmarks = <<[user_id |-> 1, video_id |-> PairCatalog, created_at |-> 0]>>
    /\ video_likes = {}
    /\ now = 0
    /\ last = NoAnswer
    /\ run = NoRun
    /\ bot_settings = {}
    /\ shelf = [user_id \in UserIds |-> <<>>]
    /\ inflight = <<>>
    /\ toggled = [writes |-> 0, blind |-> 0]
    /\ shown = <<>>
    /\ auto_delete_enabled \in BOOLEAN
    /\ chat = <<>>
    /\ broadcast = NoBroadcast

\* a task created at the last step of the clock would sleep past it: videos
\* are sent while the clock can still run for auto_delete_minutes
NextDelete ==
    \/ /\ now + auto_delete_minutes <= MaxTime
       /\ \/ \E send \in {"ok", "undeleted", "error"} : get_video_callback(1, send, TRUE)
          \/ category_selection_callback(1, <<"cat", "1">>, TRUE)
          \/ \E delivered \in 0..1 : mybookmarks_command(1, delivered)
    \/ navigate_video(1, "next", TRUE)
    \/ Cardinality(video_likes) < MaxRecorded /\ like_video_callback(1, "none", TRUE)
    \/ Len(bookmarks) <= MaxRecorded /\ bookmark_video_callback(1, "none")
    \/ \E m \in 1..MaxMessages, deleted \in BOOLEAN : delete_video_message(m, deleted)
    \/ Tick

SpecDelete == InitDelete /\ [][NextDelete]_vars

\* asyncio runs every task it was given: the clock moves on and a task whose
\* sleep is over makes its attempt
FairSpecDelete ==
    /\ SpecDelete
    /\ WF_vars(Tick)
    /\ \A m \in 1..MaxMessages :
           WF_vars(\E deleted \in BOOLEAN : delete_video_message(m, deleted))

\* the m-th video message has been sent and its deletion was attempted
Attempted(m) == m \in DOMAIN chat /\ chat[m].attempts = 1

\* C37 as stated: with auto-delete enabled, every video message sent gets a
\* deletion attempt, once, not before its interval is over and whatever the
\* user does afterwards; an attempt, failing or not, leaves the users, the
\* bookmarks and the votes as they are
C37_AutoDelete ==
    /\ \A m \in 1..MaxMessages : (m \in DOMAIN chat) ~> Attempted(m)
    /\ [](\A m \in DOMAIN chat : chat[m].attempts <= 1)
    /\ [][/\ \A m \in DOMAIN chat : Attempted(m)' => Attempted(m) \/ now >= chat[m].due
          /\ \A m \in DOMAIN chat : Attempted(m) => Attempted(m)'
          /\ last'.op = "autodelete" => UNCHANGED <<users, bookmarks, video_likes>>]_vars

-----------------------------------------------------------------------------
(* /broadcast taken send by send: an admin and a user send /broadcast while  *)
(* users join with /start, between two sends as well (the handler awaits     *)
(* send_message and asyncio.sleep at every turn of its loop)                 *)

InitBroadcast ==
    /\ \E known \in SUBSET UserIds : users = {NewUser(user_id) : user_id \in known}
    /\ videos = <<>>
    /\ bookmarks = <<>>
    /\ video_likes = {}
    /\ now = 0
    /\ last = NoAnswer
    /\ run = NoRun
    /\ NoExtras

NextBroadcast ==
    \/ \E caller \in AdminIds \cup {1}, args \in {<<>>, <<"hello">>},
          db_ok \in BOOLEAN, announced \in BOOLEAN :
           broadcast_command(caller, args, db_ok, announced)
    \/ \E delivered \in BOOLEAN : broadcast_send(delivered)
    \/ \E reported \in BOOLEAN : broadcast_report(reported)
    \/ \E user_id \in 1..MaxAudience : start_command(user_id, TRUE)

SpecBroadcast == InitBroadcast /\ [][NextBroadcast]_vars

\* the handler is awaited to its end: send_message returns or raises, and so
\* does the reply that reports
FairSpecBroadcast ==
    /\ SpecBroadcast
    /\ WF_vars(\E delivered \in BOOLEAN : broadcast_send(delivered))
    /\ WF_vars(\E reported \in BOOLEAN : broadcast_report(reported))

\* C38: a broadcast that has started holds every user id stored at that
\* moment, each once; every turn of the loop sends to the next id of that
\* list, whether the send before it failed or not, and to no id twice; the
\* loop ends, and the counts it reports add up to the length of the list.
C38_Broadcast ==
    /\ [][(last'.op = "broadcast" /\ last'.result = "Starting")
          => /\ broadcast'.pc = "sending"
             /\ Len(broadcast'.users) = Cardinality(users)
             /\ {broadcast'.users[k] : k \in DOMAIN broadcast'.users}
                    = {d.user_id : d \in users}]_vars
    /\ [][broadcast.pc = "sending"
          => \/ /\ last'.op = "broadcast_report"
                /\ broadcast.i = Len(broadcast.users)
                /\ last'.sends = Len(broadcast.users)
                /\ last'.total_users = Len(broadcast.users)
                /\ last'.total + last'.failed_sends = last'.total_users
             \/ /\ last'.op = "broadcast_send"
                /\ broadcast'.users = broadcast.users
                /\ broadcast'.i = broadcast.i + 1
                /\ last'.landed = broadcast.users[broadcast.i + 1]
                /\ broadcast'.successful_sends + broadcast'.failed_sends = broadcast'.i
             \/ UNCHANGED broadcast]_vars
    /\ (broadcast.pc = "sending") ~> (broadcast.pc = "idle")

\* a broadcast to two users was reported with one send failed and one
\* delivered, and a third user had joined before its end
C38_Witness ==
    /\ last.op = "broadcast_report"
    /\ last.result = "Broadcast"
    /\ last.total_users = 2
    /\ last.total = 1
    /\ last.failed_sends = 1
    /\ Cardinality(users) = MaxAudience

-----------------------------------------------------------------------------
(* src/start.py: the bookmark list under handlers taken whole and a handler  *)
(* taken call by call.  User 1 starts with two bookmarks, with four or with *)
(* ShelfLimit; toggles and removals are handled one after the other, reads  *)
(* may fail, and one more request is split at its two storage calls, so     *)
(* that the others fall between its read and its write                      *)

\* a start.py request that has been taken up: the handler (op), its file id
\* or bookmark number, the call it makes next (pc) and its local `bookmarks`
ShelfRequest(op, user_id, file_id, n) ==
    [op |-> op, user |-> user_id, file_id |-> file_id, n |-> n, pc |-> "read",
     list |-> <<>>, result |-> ""]

\* bot.get_user_data(user_id) and the lines up to save_user_data
shelf_read(p, read_ok) ==
    LET r == inflight[p]
        list == IF read_ok THEN shelf_of(r.user) ELSE <<>>
    IN  /\ p \in DOMAIN inflight
        /\ r.pc = "read"
        /\ inflight' = [inflight EXCEPT ![p] =
               IF r.op = "togglebookmark"
               THEN [r EXCEPT !.list = after_toggle(list, r.file_id),
                              !.result = toggle_msg(list, r.file_id), !.pc = "save"]
               ELSE IF r.n < 1 \/ r.n > Len(list)
               THEN [r EXCEPT !.result = "NotFound", !.pc = "done"]
               ELSE [r EXCEPT !.list = pop(list, r.n), !.result = "Removed",
                              !.pc = "save"]]
        /\ UNCHANGED <<users, videos, bookmarks, video_likes, now, last, run, bot_settings,
                       shelf, toggled, shown, auto_delete_enabled, chat, broadcast>>

\* bot.save_user_data(user_id, user_data): the document takes the list whole
shelf_save(p) ==
    LET r == inflight[p]
    IN  /\ p \in DOMAIN inflight
        /\ r.pc = "save"
        /\ shelf' = [shelf EXCEPT ![r.user] = r.list]
        /\ users' = save_shelf(r.user)
        /\ inflight' = [inflight EXCEPT ![p].pc = "done"]
        /\ last' = [Answer(r.op, r.user, r.result) EXCEPT
                       !.file_id = r.file_id, !.request = p]
        /\ run' = NoRun
        /\ UNCHANGED <<videos, bookmarks, video_likes, now, bot_settings, toggled, shown,
                       auto_delete_enabled, chat, broadcast>>

\* the file ids toggled: one stored from the start and one that is not
ToggledFileIds == {CatalogFileIds[1], CatalogFileIds[ShelfLimit + 1]}

SplitRequests ==
    {ShelfRequest("togglebookmark", 1, file_id, 0) : file_id \in ToggledFileIds}
        \cup {ShelfRequest("deletebookmark", 1, "", 1)}

InitToggle ==
    /\ users = {NewUser(1)}
    /\ videos = <<>>
    /\ bookmarks = <<>>
    /\ video_likes = {}
    /\ now = 0
    /\ last = NoAnswer
    /\ run = NoRun
    /\ bot_settings = {}
    /\ \E held \in {2, ShelfLimit - 1, ShelfLimit} :
           shelf = [user_id \in UserIds |->
                       IF user_id = 1 THEN [i \in 1..held |-> CatalogFileIds[i]] ELSE <<>>]
    /\ \E a \in SplitRequests : inflight = <<a>>
    /\ toggled = [writes |-> 0, blind |-> 0]
    /\ shown = <<>>
    /\ auto_delete_enabled = FALSE
    /\ chat = <<>>
    /\ broadcast = NoBroadcast

NextToggle ==
    \/ \E file_id \in ToggledFileIds, read_ok \in BOOLEAN :
           toggle_bookmark_callback(1, file_id, read_ok)
    \/ \E args \in {<<"1">>, <<"9">>} : delete_bookmark_cmd(1, args)
    \/ \E p \in 1..MaxRequests, read_ok \in BOOLEAN : shelf_read(p, read_ok)
    \/ \E p \in 1..MaxRequests : shelf_save(p)

SpecToggle == InitToggle /\ [][NextToggle]_vars

\* no file id is twice in the list
NoDuplicate(list) == \A i, j \in 1..Len(list) : list[i] = list[j] => i = j

\* a toggle handled whole
WholeToggle == last'.op = "togglebookmark" /\ inflight' = inflight

\* a toggle handled whole right after a toggle of the same file id by the
\* same user, handled whole as well
ToggledTwice ==
    /\ WholeToggle
    /\ last.op = "togglebookmark"
    /\ last.request = 0
    /\ last.user = last'.user
    /\ last.file_id = last'.file_id

\* C39 as stated: whatever toggles and removals were handled, one after the
\* other or interleaved, a list holds no file id twice and at most ShelfLimit
\* entries; a toggle removes the file id that is in the list, appends the one
\* that is not when the list is shorter than ShelfLimit, and leaves a full
\* list as it is; two toggles of one file id from a list shorter than
\* ShelfLimit give back the list they started from.
C39_FlatToggle ==
    /\ [](\A user_id \in UserIds :
              NoDuplicate(shelf[user_id]) /\ Len(shelf[user_id]) <= ShelfLimit)
    /\ [][WholeToggle
          => LET list == shelf[last'.user]
                 file_id == last'.file_id
                 held == \E i \in 1..Len(list) : list[i] = file_id
             IN  shelf'[last'.user] =
                     IF held THEN remove(list, file_id)
                     ELSE IF Len(list) < ShelfLimit THEN Append(list, file_id)
                     ELSE list]_vars
    /\ [][(ToggledTwice /\ Len(last.listed) < ShelfLimit)
          => shelf'[last'.user] = last.listed]_vars

=============================================================================
